---- MODULE Spec2Model ----
(***************************************************************************)
(* Model of the stub/driver generator (AppProvider in AppContext and the   *)
(* parsing helpers in utils/fileUtils.ts).                                 *)
(*                                                                         *)
(* Text is modelled as a sequence of one-character strings so that the     *)
(* string operations of the source (toLowerCase, includes, replace,       *)
(* template concatenation, the regular expressions of the message         *)
(* classifier) are computed, not assumed.  Ids produced by generateId()    *)
(* are opaque tokens.                                                      *)
(***************************************************************************)
EXTENDS Integers, Sequences, FiniteSets, TLC

VARIABLES
    uploadedFiles,       \* UploadedFile[]: id, name, type
    systemFunctions,     \* SystemFunction[]
    selectedFunctionId,  \* string | null
    allClasses,          \* ClassInfo[]
    filteredClasses,     \* ClassInfo[]
    selectedClassIds,    \* string[]
    sequenceDiagrams,    \* SequenceDiagram[]
    generatedCodes,      \* GeneratedCode[]
    codeSessions,        \* CodeGenerationSession[]
    currentStep,
    isLoading,
    isGenerating,
    pending,             \* addFile calls suspended at their file read
    serial,              \* number of addFile calls started (source of fresh ids)
    lastRun,             \* inputs, call graph and batch of the latest generateCode run
    walk,                \* position of a call-graph traversal executed step by step
    parse                \* a call of a file parser: its input and what it returned

vars == << uploadedFiles, systemFunctions, selectedFunctionId, allClasses,
           filteredClasses, selectedClassIds, sequenceDiagrams, generatedCodes,
           codeSessions, currentStep, isLoading, isGenerating, pending, serial,
           lastRun, walk, parse >>

(***************************************************************************)
(* String primitives (JavaScript String methods used by the source)        *)
(***************************************************************************)
UpperAlpha == <<"A","B","C","D","E","F","G","H","I","J","K","L","M",
                "N","O","P","Q","R","S","T","U","V","W","X","Y","Z">>

LowerAlpha == <<"a","b","c","d","e","f","g","h","i","j","k","l","m",
                "n","o","p","q","r","s","t","u","v","w","x","y","z">>

Digits == {"0","1","2","3","4","5","6","7","8","9"}

RECURSIVE CaseMap(_, _, _)
CaseMap(from, to, i) ==
    IF i = 26 THEN from[i] :> to[i] ELSE (from[i] :> to[i]) @@ CaseMap(from, to, i + 1)

\* the lower-case letter of each upper-case letter, and the reverse
Lowered == CaseMap(UpperAlpha, LowerAlpha, 1)

Uppered == CaseMap(LowerAlpha, UpperAlpha, 1)

IsUpper(c) == c \in DOMAIN Lowered

IsLower(c) == c \in DOMAIN Uppered

\* [a-zA-Z]
Letters == { UpperAlpha[i] : i \in 1..26 } \cup { LowerAlpha[i] : i \in 1..26 }

\* \w of a JavaScript regular expression
WordChars == Letters \cup Digits \cup { "_" }

\* \s of a JavaScript regular expression (the inputs hold no other blanks)
Spaces == { " " }

IsWordChar(c) == c \in WordChars

LowerChar(c) == IF IsUpper(c) THEN Lowered[c] ELSE c

UpperChar(c) == IF IsLower(c) THEN Uppered[c] ELSE c

toLowerCase(s) == <<>> \o [i \in 1..Len(s) |-> LowerChar(s[i])]

\* s.startsWith(t) at offset i (0-based): t occurs in s at position i+1
MatchAt(s, t, i) == i + Len(t) <= Len(s) /\ SubSeq(s, i + 1, i + Len(t)) = t

startsWith(s, t) == MatchAt(s, t, 0)

endsWith(s, t) == Len(t) <= Len(s) /\ MatchAt(s, t, Len(s) - Len(t))

includes(s, t) == \E a \in {s}, b \in {t} : \E i \in 0..Len(a) : MatchAt(a, b, i)

\* s.indexOf(t), 0-based, -1 when absent
indexOf(s, t) == IF includes(s, t)
                 THEN CHOOSE i \in 0..Len(s) :
                        MatchAt(s, t, i) /\ \A j \in 0..(i - 1) : ~MatchAt(s, t, j)
                 ELSE -1

\* s.replace(t, '') with a string pattern: removes the first occurrence only
removeFirst(s, t) == LET i == indexOf(s, t)
                     IN IF i = -1 THEN s
                        ELSE SubSeq(s, 1, i) \o SubSeq(s, i + Len(t) + 1, Len(s))

\* s.charAt(0).toUpperCase() + s.slice(1)
capitalize(s) == IF Len(s) = 0 THEN s ELSE <<UpperChar(s[1])>> \o Tail(s)

\* end (exclusive, 0-based) of the longest run of characters of a class from i
RunEnd(s, i, class) ==
    CHOOSE j \in i..Len(s) :
        /\ \A k \in (i + 1)..j : s[k] \in class
        /\ (j = Len(s) \/ s[j + 1] \notin class)

(***************************************************************************)
(* Message Classifier: detectReturnMessage (AppContext, generateCode)      *)
(***************************************************************************)
\* /\bw\b/ : w occurs in s as a whole word
WordIn(s, w) ==
    \E i \in 0..Len(s) :
        /\ MatchAt(s, w, i)
        /\ (i = 0 \/ ~IsWordChar(s[i]))
        /\ (i + Len(w) = Len(s) \/ ~IsWordChar(s[i + Len(w) + 1]))

\* /\.(w)\s*\(/ : ".w", optional blanks, "("
DotCall(s, w) ==
    \E i \in 0..Len(s) :
        /\ MatchAt(s, <<".">> \o w, i)
        /\ LET j == RunEnd(s, i + 1 + Len(w), Spaces)
           IN j < Len(s) /\ s[j + 1] = "("

ReturnTypes == { <<"r","e","t","u","r","n">>, <<"r","e","p","l","y">>, <<"r","e","s","p","o","n","s","e">> }

\* step 2: /^(return|reply|response)/i, /\breturn\b/i, /\breply\b/i, /\bresponse\b/i
ReturnKeyword(s) ==
    \/ \E w \in ReturnTypes : startsWith(s, w)
    \/ \E w \in ReturnTypes : WordIn(s, w)

\* /^[A-Z][a-zA-Z]*\s+(object|instance|data)$/i
ObjectPhrase(s) ==
    LET k == RunEnd(s, 0, Letters)
        j == RunEnd(s, k, Spaces)
    IN k >= 1 /\ j > k /\ SubSeq(s, j + 1, Len(s)) \in { <<"o","b","j","e","c","t">>, <<"i","n","s","t","a","n","c","e">>, <<"d","a","t","a">> }

\* /^[A-Z][a-zA-Z]*\[\]$/i
ArrayType(s) ==
    LET k == RunEnd(s, 0, Letters)
    IN k >= 1 /\ SubSeq(s, k + 1, Len(s)) = <<"[","]">>

\* /^List<[^>]+>$/i, /^Map<[^>]+>$/i, /^Optional<[^>]+>$/i
GenericType(s, head) ==
    /\ startsWith(s, head)
    /\ Len(s) >= Len(head) + 2
    /\ s[Len(s)] = ">"
    /\ \A i \in (Len(head) + 1)..(Len(s) - 1) : s[i] # ">"

\* /^\w+\s*[+\-*/=]\s*\w+/
Arithmetic(s) ==
    LET k == RunEnd(s, 0, WordChars)
        j == RunEnd(s, k, Spaces)
    IN /\ k >= 1
       /\ j < Len(s)
       /\ s[j + 1] \in {"+", "-", "*", "/", "="}
       /\ LET m == RunEnd(s, j + 1, Spaces)
          IN m < Len(s) /\ IsWordChar(s[m + 1])

\* /^\d+(\.\d+)?$/
NumberLiteral(s) ==
    LET k == RunEnd(s, 0, Digits)
    IN /\ k >= 1
       /\ \/ k = Len(s)
          \/ /\ s[k + 1] = "."
             /\ LET m == RunEnd(s, k + 1, Digits)
                IN m > k + 1 /\ m = Len(s)

\* /^"[^"]*"$/ and /^'[^']*'$/
Quoted(s, q) ==
    /\ Len(s) >= 2
    /\ s[1] = q
    /\ s[Len(s)] = q
    /\ \A i \in 2..(Len(s) - 1) : s[i] # q

\* /^\{.*\}$/ and /^\[.*\]$/
Bracketed(s, open, close) == Len(s) >= 2 /\ s[1] = open /\ s[Len(s)] = close

\* step 3: returnDataPatterns
ReturnDataPattern(s) ==
    \/ s \in { <<"v","o","i","d">>, <<"n","u","l","l">>, <<"u","n","d","e","f","i","n","e","d">> }
    \/ ObjectPhrase(s)
    \/ ArrayType(s)
    \/ GenericType(s, <<"l","i","s","t","<">>)
    \/ GenericType(s, <<"m","a","p","<">>)
    \/ GenericType(s, <<"o","p","t","i","o","n","a","l","<">>)
    \/ Arithmetic(s)
    \/ s \in { <<"t","r","u","e">>, <<"f","a","l","s","e">> }
    \/ NumberLiteral(s)
    \/ Quoted(s, "\"")
    \/ Quoted(s, "'")
    \/ Bracketed(s, "{", "}")
    \/ Bracketed(s, "[", "]")

\* step 4a: returnActionPatterns
ReturnActionVerbs ==
    { <<"s","e","n","d">>, <<"e","m","i","t">>, <<"p","u","b","l","i","s","h">>, <<"n","o","t","i","f","y">>,
      <<"l","o","g">>, <<"t","r","a","c","e">>, <<"d","e","b","u","g">>, <<"i","n","f","o">>, <<"w","a","r","n">>, <<"e","r","r","o","r">>, <<"p","r","i","n","t">>, <<"p","r","i","n","t","l","n">>,
      <<"c","l","o","s","e">>, <<"d","i","s","p","o","s","e">>, <<"c","l","e","a","n","u","p">>, <<"f","i","n","a","l","i","z","e">>, <<"s","h","u","t","d","o","w","n">> }

\* step 4b: contextualReturnPatterns
StateChangeVerbs ==
    { <<"u","p","d","a","t","e">>, <<"s","e","t">>, <<"p","u","t">>, <<"a","d","d">>, <<"r","e","m","o","v","e">>, <<"d","e","l","e","t","e">>, <<"c","l","e","a","r">>, <<"r","e","s","e","t">>,
      <<"s","a","v","e">>, <<"p","e","r","s","i","s","t">>, <<"s","t","o","r","e">>, <<"w","r","i","t","e">>, <<"f","l","u","s","h">> }

SideEffectObjects ==
    { <<"c","a","c","h","e">>, <<"s","t","o","r","a","g","e">>, <<"l","o","g">>, <<"l","o","g","g","e","r">>, <<"d","a","t","a","b","a","s","e">>, <<"d","b">>, <<"r","e","p","o">>, <<"r","e","p","o","s","i","t","o","r","y">> }

\* /^[a-z]+\.[a-z]+\(/i
DirectProperty(s) ==
    LET k == RunEnd(s, 0, Letters)
    IN /\ k >= 1
       /\ k < Len(s)
       /\ s[k + 1] = "."
       /\ LET m == RunEnd(s, k + 1, Letters)
          IN m > k + 1 /\ m < Len(s) /\ s[m + 1] = "("

\* messageName.split('.')[0]
BeforeFirstDot(s) == LET i == indexOf(s, <<".">>) IN IF i = -1 THEN s ELSE SubSeq(s, 1, i)

\* step 5: returnIndicators and commandWords
ReturnIndicators ==
    { <<"o","b","j","e","c","t">>, <<"i","n","s","t","a","n","c","e">>, <<"d","a","t","a">>, <<"r","e","s","u","l","t">>, <<"v","a","l","u","e">>, <<"r","e","s","p","o","n","s","e">>,
      <<"=">>, <<"+","=">>, <<"-","=">>, <<"*","=">>, <<"/","=">>, <<"+","+">>, <<"-","-">>,
      <<"s","u","c","c","e","s","s">>, <<"e","r","r","o","r">>, <<"f","a","i","l","e","d">>, <<"c","o","m","p","l","e","t","e","d">>, <<"f","i","n","i","s","h","e","d">>,
      <<"u","p","d","a","t","e","d">>, <<"s","a","v","e","d">>, <<"d","e","l","e","t","e","d">>, <<"c","r","e","a","t","e","d">> }

CommandWords ==
    { <<"s","t","a","r","t">>, <<"s","t","o","p">>, <<"b","e","g","i","n">>, <<"e","n","d">>, <<"r","u","n">>, <<"e","x","e","c","u","t","e">>, <<"p","r","o","c","e","s","s">>, <<"h","a","n","d","l","e">> }

\* detectReturnMessage on the lower-cased name and type.  Steps 4c, 4d and the
\* parenthesis default all return false, so they are one ELSE branch.
IsReturnText(messageName, messageType) ==
    IF messageType \in ReturnTypes THEN TRUE
    ELSE IF ReturnKeyword(messageName) THEN TRUE
    ELSE IF ReturnDataPattern(messageName) THEN TRUE
    ELSE IF includes(messageName, <<"(">>) /\ includes(messageName, <<")">>)
    THEN IF \E w \in ReturnActionVerbs : DotCall(messageName, w) THEN TRUE
         ELSE IF /\ \E w \in StateChangeVerbs : DotCall(messageName, w)
                 /\ DirectProperty(messageName)
                 /\ BeforeFirstDot(messageName) \in SideEffectObjects
         THEN TRUE
         ELSE FALSE
    ELSE IF ~includes(messageName, <<"(">>)
    THEN IF \E w \in ReturnIndicators : includes(messageName, w) THEN TRUE
         ELSE IF /\ ~\E w \in CommandWords : includes(messageName, w)
                 /\ Len(messageName) < 20
         THEN TRUE
         ELSE FALSE
    ELSE FALSE

(***************************************************************************)
(* Requirements matrix parser (utils/fileUtils.ts, processRTMFile).  The   *)
(* CSV is what parseCSVContent returns: the header line and the data       *)
(* lines, each a list of trimmed fields.  The columns findBestColumnMatch  *)
(* picks from the header are part of the input, -1 for a column the header *)
(* does not have.                                                          *)
(***************************************************************************)
Quotes == { "'", "\"" }

\* String.prototype.trim
trim(s) ==
    LET inked == { i \in 1..Len(s) : s[i] \notin Spaces }
    IN IF inked = {} THEN <<>>
       ELSE SubSeq(s, CHOOSE i \in inked : \A j \in inked : i <= j,
                      CHOOSE i \in inked : \A j \in inked : j <= i)

\* String.prototype.split with a one-character separator
RECURSIVE split(_, _)
split(s, sep) ==
    IF \A i \in 1..Len(s) : s[i] # sep THEN << s >>
    ELSE LET at == CHOOSE i \in 1..Len(s) : s[i] = sep /\ \A j \in 1..(i - 1) : s[j] # sep
         IN << SubSeq(s, 1, at - 1) >> \o split(SubSeq(s, at + 1, Len(s)), sep)

\* replace(/^["']|["']$/g, ''): one quote off the start, one off the end
stripQuotes(s) ==
    LET headless == IF Len(s) > 0 /\ s[1] \in Quotes THEN Tail(s) ELSE s
    IN IF Len(headless) > 0 /\ headless[Len(headless)] \in Quotes
       THEN SubSeq(headless, 1, Len(headless) - 1)
       ELSE headless

\* replace(/[^\w\s\-\.]/g, '')
keepNameChars(s) ==
    LET named(c) == c \in WordChars \cup Spaces \cup { "-", "." }
    IN SelectSeq(s, named)

\* [...new Set(list)]: first occurrences, in order
RECURSIVE Distinct(_)
Distinct(list) ==
    IF list = <<>> THEN <<>>
    ELSE LET init == Distinct(SubSeq(list, 1, Len(list) - 1))
             last == list[Len(list)]
         IN IF \E i \in 1..Len(init) : init[i] = last THEN init ELSE Append(init, last)

\* the separator of a diagram cell: the first of , ; | that occurs in it
DiagramSeparator(diagramString) ==
    IF \E i \in 1..Len(diagramString) : diagramString[i] = "," THEN ","
    ELSE IF \E i \in 1..Len(diagramString) : diagramString[i] = ";" THEN ";"
    ELSE IF \E i \in 1..Len(diagramString) : diagramString[i] = "|" THEN "|"
    ELSE ","

cleanDiagramName(name) == keepNameChars(trim(stripQuotes(trim(name))))

cleanAndSplitDiagramNames(diagramString) ==
    IF diagramString = <<>> THEN <<>>
    ELSE LET pieces == split(diagramString, DiagramSeparator(diagramString))
             cleaned == [i \in 1..Len(pieces) |-> cleanDiagramName(pieces[i])]
             filled(name) == Len(name) > 0
         IN SelectSeq(cleaned, filled)

\* the columns used for id and name: one stands in for the other when the
\* header has only one of them
EffectiveFnIdIndex(csv) ==
    IF csv.fnIdIndex = -1 /\ csv.fnNameIndex # -1 THEN csv.fnNameIndex ELSE csv.fnIdIndex

EffectiveFnNameIndex(csv) ==
    IF csv.fnIdIndex = -1 /\ csv.fnNameIndex # -1 THEN csv.fnNameIndex
    ELSE IF csv.fnNameIndex = -1 /\ csv.fnIdIndex # -1 THEN csv.fnIdIndex
    ELSE csv.fnNameIndex

\* columns[index] when the row has that column, else ''
Field(columns, index) ==
    IF index # -1 /\ Len(columns) > index THEN columns[index + 1] ELSE <<>>

\* functionId and functionName of a data row, after the fallbacks
RowIdAndName(csv, columns) ==
    LET functionId == trim(Field(columns, EffectiveFnIdIndex(csv)))
        functionName == trim(Field(columns, EffectiveFnNameIndex(csv)))
    IN IF functionId = <<>> /\ functionName = <<>>
       THEN IF Len(columns) > 0 THEN << trim(columns[1]), trim(columns[1]) >>
            ELSE << <<>>, <<>> >>
       ELSE IF functionId = <<>> THEN << functionName, functionName >>
       ELSE IF functionName = <<>> THEN << functionId, functionId >>
       ELSE << functionId, functionName >>

\* a row without id and name is skipped
RowAccepted(csv, columns) ==
    /\ Len(columns) # 0
    /\ RowIdAndName(csv, columns)[1] # <<>>
    /\ RowIdAndName(csv, columns)[2] # <<>>

\* allDiagrams of a row: the sequence column, then the related column
RowDiagrams(csv, columns) ==
    Distinct(cleanAndSplitDiagramNames(Field(columns, csv.seqDiagramIndex))
                \o cleanAndSplitDiagramNames(Field(columns, csv.relatedSeqDiagramIndex)))

\* the diagram names of a function that turns up in one more row
KeepAllNames(existing, allDiagrams) == existing \o allDiagrams

MergeDiagramNames(existing, allDiagrams) == Distinct(existing \o allDiagrams)

\* the body of the row loop
RtmRow(csv, columns, functions) ==
    IF ~RowAccepted(csv, columns) THEN functions
    ELSE LET functionId == RowIdAndName(csv, columns)[1]
             functionName == RowIdAndName(csv, columns)[2]
             allDiagrams == RowDiagrams(csv, columns)
         IN IF \E i \in 1..Len(functions) : functions[i].id = functionId
            THEN LET existing == CHOOSE i \in 1..Len(functions) :
                                    /\ functions[i].id = functionId
                                    /\ \A j \in 1..(i - 1) : functions[j].id # functionId
                 IN [functions EXCEPT ![existing].sequenceDiagramNames =
                        MergeDiagramNames(@, allDiagrams)]
            ELSE Append(functions,
                        [id |-> functionId, name |-> functionName,
                         sequenceDiagramNames |-> allDiagrams])

RECURSIVE RtmRows(_, _, _)
RtmRows(csv, i, functions) ==
    IF i > Len(csv.rows) THEN functions
    ELSE RtmRows(csv, i + 1, RtmRow(csv, csv.rows[i], functions))

\* processRTMFile from the parsed CSV on: [] for a CSV without data rows and
\* for a header with neither id nor name column
RtmFunctions(csv) ==
    IF Len(csv.rows) < 1 THEN <<>>
    ELSE IF EffectiveFnIdIndex(csv) = -1 /\ EffectiveFnNameIndex(csv) = -1 THEN <<>>
    ELSE RtmRows(csv, 1, <<>>)

Csv(fnIdIndex, fnNameIndex, seqDiagramIndex, relatedSeqDiagramIndex, rows) ==
    [fnIdIndex |-> fnIdIndex, fnNameIndex |-> fnNameIndex,
     seqDiagramIndex |-> seqDiagramIndex,
     relatedSeqDiagramIndex |-> relatedSeqDiagramIndex, rows |-> rows]

(***************************************************************************)
(* Class diagram parser (utils/fileUtils.ts, processClassDiagramFile).  A  *)
(* class element is the Name attribute, the Name of the enclosing Package  *)
(* (empty when there is none) and the operations, each with its name, its  *)
(* parameter types and its return type.                                    *)
(***************************************************************************)
Method(name, parameters, returnType) ==
    [name |-> name, parameters |-> parameters, returnType |-> returnType]

ClassElement(name, packageName, methods) ==
    [name |-> name, packageName |-> packageName, methods |-> methods]

DefaultPackage == <<"d","e","f","a","u","l","t">>

Void == <<"v","o","i","d">>

\* Array.prototype.join
RECURSIVE join(_, _)
join(list, sep) ==
    IF list = <<>> THEN <<>>
    ELSE IF Len(list) = 1 THEN list[1]
    ELSE list[1] \o << sep >> \o join(Tail(list), sep)

\* `${method.name}(${method.parameters.map(p => p.type).join(',')})`
MethodKey(method) == method.name \o << "(" >> \o join(method.parameters, ",") \o << ")" >>

\* a JavaScript Map is the list of its entries in insertion order
MapHas(map, key) == \E i \in 1..Len(map) : map[i].key = key

MapIndex(map, key) == CHOOSE i \in 1..Len(map) : map[i].key = key

MapGet(map, key) == map[MapIndex(map, key)].value

MapSet(map, key, value) ==
    IF MapHas(map, key) THEN [map EXCEPT ![MapIndex(map, key)].value = value]
    ELSE Append(map, [key |-> key, value |-> value])

MapDelete(map, key) == LET other(entry) == entry.key # key IN SelectSeq(map, other)

MapValues(map) == [i \in 1..Len(map) |-> map[i].value]

\* the name of a class element is skipped: absent (it becomes Class<i>),
\* blank, or starting with "Class"
SkippedName(name) == name = <<>> \/ trim(name) = <<>> \/ startsWith(name, <<"C","l","a","s","s">>)

\* the Name of the nearest enclosing Package, 'default' without one
PackageOf(element) ==
    IF element.packageName = <<>> THEN DefaultPackage ELSE element.packageName

CompositeKey(packageName, name) ==
    (IF packageName = DefaultPackage THEN <<>> ELSE packageName) \o <<":",":">> \o name

\* existingClass.methods.forEach(method => methodMap.set(methodKey, method))
RECURSIVE ExistingMethods(_, _, _)
ExistingMethods(methods, i, methodMap) ==
    IF i > Len(methods) THEN methodMap
    ELSE ExistingMethods(methods, i + 1, MapSet(methodMap, MethodKey(methods[i]), methods[i]))

\* a method of the new version replaces the one with its key when it is new
\* or more complete
MoreComplete(methodMap, method) ==
    \/ ~MapHas(methodMap, MethodKey(method))
    \/ Len(method.parameters) > Len(MapGet(methodMap, MethodKey(method)).parameters)
    \/ /\ method.returnType # Void
       /\ MapGet(methodMap, MethodKey(method)).returnType = Void

RECURSIVE NewMethods(_, _, _)
NewMethods(methods, i, methodMap) ==
    IF i > Len(methods) THEN methodMap
    ELSE NewMethods(methods, i + 1,
                    IF MoreComplete(methodMap, methods[i])
                    THEN MapSet(methodMap, MethodKey(methods[i]), methods[i])
                    ELSE methodMap)

\* the methods of a class element met again under the same key
MergedMethods(existing, methods) ==
    MapValues(NewMethods(methods, 1, ExistingMethods(existing, 1, <<>>)))

\* one class element in the first pass
CollectElement(classesMap, element) ==
    LET name == element.name
        packageName == PackageOf(element)
        compositeKey == CompositeKey(packageName, name)
    IN IF SkippedName(name) THEN classesMap
       ELSE IF MapHas(classesMap, compositeKey)
       THEN MapSet(classesMap, compositeKey,
                   [MapGet(classesMap, compositeKey) EXCEPT
                       !.methods = MergedMethods(@, element.methods)])
       ELSE IF Len(element.methods) > 0 \/ packageName # DefaultPackage
       THEN MapSet(classesMap, compositeKey,
                   [name |-> name, packageName |-> packageName, methods |-> element.methods])
       ELSE classesMap

RECURSIVE CollectElements(_, _, _)
CollectElements(classElements, i, classesMap) ==
    IF i > Len(classElements) THEN classesMap
    ELSE CollectElements(classElements, i + 1, CollectElement(classesMap, classElements[i]))

\* the methods of a class that lost to a kept one, pushed onto the kept one
\* unless their signature was there before the merge
UniqueMethods(bestExisting, classInfo) ==
    LET existingMethodSignatures == { MethodKey(bestExisting.methods[i]) :
                                          i \in 1..Len(bestExisting.methods) }
        unique(newMethod) == MethodKey(newMethod) \notin existingMethodSignatures
    IN bestExisting.methods \o SelectSeq(classInfo.methods, unique)

\* the entry of the final map with the name of classInfo, if any
SameNamed(finalClassesMap, classInfo) ==
    { i \in 1..Len(finalClassesMap) : finalClassesMap[i].value.name = classInfo.name }

\* the new version replaces the kept one: more methods, or as many and a
\* package where the kept one has none
Replaces(classInfo, existingClass) ==
    \/ Len(classInfo.methods) > Len(existingClass.methods)
    \/ /\ Len(classInfo.methods) = Len(existingClass.methods)
       /\ classInfo.packageName # DefaultPackage
       /\ existingClass.packageName = DefaultPackage

\* one entry of classesMap in the second pass
SettleEntry(finalClassesMap, entry) ==
    LET classInfo == entry.value
        same == SameNamed(finalClassesMap, classInfo)
    IN IF same = {} THEN MapSet(finalClassesMap, entry.key, classInfo)
       ELSE LET first == CHOOSE i \in same : \A j \in same : i <= j
                existingClass == finalClassesMap[first].value
            IN IF Replaces(classInfo, existingClass)
               THEN MapSet(MapDelete(finalClassesMap, finalClassesMap[first].key),
                           entry.key, classInfo)
               ELSE [finalClassesMap EXCEPT
                        ![first].value.methods = UniqueMethods(existingClass, classInfo)]

RECURSIVE SettleEntries(_, _, _)
SettleEntries(classesMap, i, finalClassesMap) ==
    IF i > Len(classesMap) THEN finalClassesMap
    ELSE SettleEntries(classesMap, i + 1, SettleEntry(finalClassesMap, classesMap[i]))

\* every accepted class element as an entry of its own
EveryElement(classElements) ==
    LET named(element) == ~SkippedName(element.name)
        kept == SelectSeq(classElements, named)
    IN [i \in 1..Len(kept) |->
          [name |-> kept[i].name, packageName |-> PackageOf(kept[i]),
           methods |-> kept[i].methods]]

\* the classes of a document: both passes
ClassCatalog(classElements) ==
    MapValues(SettleEntries(CollectElements(classElements, 1, <<>>), 1, <<>>))

(***************************************************************************)
(* Sequence diagram parser (utils/fileUtils.ts,                            *)
(* processSequenceDiagramFile): participants and messages.  A shape of     *)
(* the diagram is its Model attribute ("" when absent), its Name and what  *)
(* it is: an InteractionActor, an InteractionOccurrence or an              *)
(* InteractionLifeLine with the class of its BaseClassifier.  A message    *)
(* element carries the model ids of its two ends.                          *)
(***************************************************************************)
\* type of an actor and of a REF box
ACTOR == <<"A","C","T","O","R">>

REF == <<"R","E","F">>

\* className of a lifeline whose BaseClassifier names no class
Unknown == <<"u","n","k","n","o","w","n">>

\* a lifeline whose model is not in the frame or has no BaseClassifier
NoClassifier == << "none" >>

\* '' as an object id
NoObjectId == <<>>

\* the shape is pushed onto objects and entered in objectIdMap
Recorded(shape) ==
    /\ shape.id # ""
    /\ shape.type # NoClassifier

\* the recorded shapes in the order of the three loops: lifelines, actors,
\* occurrences
RecordedShapes(shapes) ==
    LET lifeLine(shape) == Recorded(shape) /\ shape.type \notin { ACTOR, REF }
        actor(shape) == Recorded(shape) /\ shape.type = ACTOR
        occurrence(shape) == Recorded(shape) /\ shape.type = REF
    IN SelectSeq(shapes, lifeLine) \o SelectSeq(shapes, actor) \o SelectSeq(shapes, occurrence)

\* objects: the k-th object gets a fresh id
ObjectNodes(shapes, diagramId) ==
    LET recorded == RecordedShapes(shapes)
    IN [k \in 1..Len(recorded) |->
          [id |-> << diagramId, k >>, name |-> recorded[k].name, type |-> recorded[k].type]]

\* objectIdMap.get(modelId || '') || '': the latest object set for the model
ObjectIdOf(shapes, diagramId, modelId) ==
    LET recorded == RecordedShapes(shapes)
        hits == { k \in 1..Len(recorded) : recorded[k].id = modelId }
    IN IF modelId = "" \/ hits = {} THEN NoObjectId
       ELSE << diagramId, CHOOSE k \in hits : \A h \in hits : h <= k >>

\* the type of a message from the Type attribute, 'Message' when absent
MessageType(messageType) ==
    LET given == IF messageType = <<>> THEN <<"M","e","s","s","a","g","e">> ELSE messageType
    IN IF given = <<"C","r","e","a","t","e"," ","M","e","s","s","a","g","e">> THEN <<"c","r","e","a","t","e">>
       ELSE IF given = <<"M","e","s","s","a","g","e">> THEN <<"s","y","n","c","h","C","a","l","l">>
       ELSE <<"m","e","s","s","a","g","e">>

\* a message with its source recorded
SourceRecorded(fromObjectId, toObjectId) == fromObjectId # NoObjectId

\* if (fromObjectId && toObjectId)
EndpointsRecorded(fromObjectId, toObjectId) ==
    fromObjectId # NoObjectId /\ toObjectId # NoObjectId

\* the message loop
RECURSIVE MessagesFrom(_, _, _, _)
MessagesFrom(shapes, diagramId, messageElements, j) ==
    IF j > Len(messageElements) THEN <<>>
    ELSE LET messageElement == messageElements[j]
             fromObjectId == ObjectIdOf(shapes, diagramId, messageElement.from)
             toObjectId == ObjectIdOf(shapes, diagramId, messageElement.to)
             rest == MessagesFrom(shapes, diagramId, messageElements, j + 1)
         IN IF EndpointsRecorded(fromObjectId, toObjectId)
            THEN << [id |-> messageElement.id, from |-> fromObjectId, to |-> toObjectId,
                     name |-> messageElement.name,
                     type |-> MessageType(messageElement.type)] >> \o rest
            ELSE rest

(***************************************************************************)
(* References of a diagram (processSequenceDiagramFile, first loop over    *)
(* the InteractionOccurrence models).  An occurrence of a document is its  *)
(* Id, its Name attribute and, as diagramName, the name found through      *)
(* TransitFrom/Operation, CoveredInteraction or a message operation, empty *)
(* when none of the three finds one.                                       *)
(***************************************************************************)
\* the alternatives of /^(?:ref|sd|seq|sequence|diagram)+\s*/i in order
PrefixTokens == << <<"r","e","f">>, <<"s","d">>, <<"s","e","q">>, <<"s","e","q","u","e","n","c","e">>, <<"d","i","a","g","r","a","m">> >>

\* the offset after the tokens matched by (?:...)+ from offset i: at each
\* round the first alternative that matches is taken
RECURSIVE AfterTokens(_, _)
AfterTokens(lowered, i) ==
    LET hits == { k \in 1..Len(PrefixTokens) : MatchAt(lowered, PrefixTokens[k], i) }
    IN IF hits = {} THEN i
       ELSE AfterTokens(lowered, i + Len(PrefixTokens[CHOOSE k \in hits : \A h \in hits : k <= h]))

\* refName.replace(/^(?:ref|sd|seq|sequence|diagram)+\s*/i, '')
StripPrefixes(refName) ==
    LET after == AfterTokens(toLowerCase(refName), 0)
    IN IF after = 0 THEN refName
       ELSE SubSeq(refName, RunEnd(refName, after, Spaces) + 1, Len(refName))

\* base[0].toUpperCase() on an empty base: TypeError
enhanceRefNameMatchingThrows(refName) ==
    trim(refName) # <<>> /\ StripPrefixes(trim(refName)) = <<>>

\* enhanceRefNameMatching(refName)[0]: the first variation added, the
\* trimmed base; undefined for a blank name
FirstVariation(refName) ==
    IF trim(refName) = <<>> THEN <<>> ELSE trim(StripPrefixes(trim(refName)))

\* getAttribute('Name') || `Ref${i}`
OccurrenceName(occurrence, i) ==
    IF occurrence.name # <<>> THEN occurrence.name
    ELSE <<"R","e","f">> \o << << "0", "1", "2", "3", "4", "5", "6", "7", "8", "9" >>[i + 1] >>

\* Method 4 is reached for the occurrence and throws
OccurrenceThrows(occurrence, i) ==
    occurrence.diagramName = <<>> /\ enhanceRefNameMatchingThrows(OccurrenceName(occurrence, i))

\* the reference pushed for the i-th occurrence (i from 0)
ReferenceOf(occurrence, i) ==
    [id |-> occurrence.id,
     name |-> OccurrenceName(occurrence, i),
     diagramName |-> IF occurrence.diagramName # <<>> THEN occurrence.diagramName
                     ELSE FirstVariation(OccurrenceName(occurrence, i))]

\* the loop over the occurrences throws
ReferencesThrow(occurrences) ==
    \E k \in 1..Len(occurrences) : OccurrenceThrows(occurrences[k], k - 1)

\* references
ReferencesFrom(occurrences) ==
    <<>> \o [k \in 1..Len(occurrences) |-> ReferenceOf(occurrences[k], k - 1)]

(***************************************************************************)
(* Names used by the inputs                                                *)
(***************************************************************************)
Teller == <<"T","e","l","l","e","r">>

AccountService == <<"A","c","c","o","u","n","t","S","e","r","v","i","c","e">>

TransactionService == <<"T","r","a","n","s","a","c","t","i","o","n","S","e","r","v","i","c","e">>

\* the absent (undefined) string; like '' it is falsy in the source
NoName == <<>>

(***************************************************************************)
(* Uploaded files.  A file is its name, the tab it was dropped on (type)   *)
(* and the content the parsers find in it: `fault` is the structural       *)
(* defect, if any, that makes the parser give up ("none" for a well-formed *)
(* file).                                                                  *)
(***************************************************************************)
Obj(id, name, type) == [id |-> id, name |-> name, type |-> type]

Msg(id, from, to, name, type) ==
    [id |-> id, from |-> from, to |-> to, name |-> name, type |-> type]

Ref(id, name, diagramName) == [id |-> id, name |-> name, diagramName |-> diagramName]

SequenceFile(name, fault, objects, messages, references) ==
    [name |-> name, type |-> "sequenceDiagram", fault |-> fault,
     objects |-> objects, messages |-> messages, references |-> references,
     csv |-> <<>>, classes |-> <<>>]

RtmFile(name, fault, csv) ==
    [name |-> name, type |-> "rtm", fault |-> fault,
     objects |-> <<>>, messages |-> <<>>, references |-> <<>>,
     csv |-> csv, classes |-> <<>>]

ClassFile(name, fault, classes) ==
    [name |-> name, type |-> "classDiagram", fault |-> fault,
     objects |-> <<>>, messages |-> <<>>, references |-> <<>>,
     csv |-> <<>>, classes |-> classes]

\* DepositSequence.xml: Teller calls AccountService, which answers "true"
DepositFile ==
    SequenceFile(<<"D","e","p","o","s","i","t","S","e","q","u","e","n","c","e",".","x","m","l">>, "none",
        << Obj("o1", <<"t","e","l","l","e","r">>, Teller), Obj("o2", <<"a","c","c","o","u","n","t","s">>, AccountService) >>,
        << Msg("m1", "o1", "o2", <<"p","r","o","c","e","s","s","D","e","p","o","s","i","t","(","a","m","o","u","n","t",")">>, <<"M","e","s","s","a","g","e">>),
           Msg("m2", "o2", "o1", <<"t","r","u","e">>, <<"R","e","p","l","y">>) >>,
        << >>)

\* Transfer.xml: an actor, two lifelines and a REF box whose operation
\* "ProcessDeposit" is no loaded diagram
TransferFile ==
    SequenceFile(<<"T","r","a","n","s","f","e","r",".","x","m","l">>, "none",
        << Obj("o3", <<"c","l","e","r","k">>, ACTOR), Obj("o4", <<"t","e","l","l","e","r">>, Teller),
           Obj("o5", <<"l","e","d","g","e","r">>, TransactionService), Obj("o6", <<"P","r","o","c","e","s","s","D","e","p","o","s","i","t">>, REF) >>,
        << Msg("m3", "o3", "o4", <<"t","r","a","n","s","f","e","r","(","a","m","o","u","n","t",")">>, <<"M","e","s","s","a","g","e">>),
           Msg("m4", "o4", "o4", <<"v","a","l","i","d","a","t","e","(","a","m","o","u","n","t",")">>, <<"M","e","s","s","a","g","e">>),
           Msg("m5", "o5", "o6", <<"p","r","o","c","e","s","s","D","e","p","o","s","i","t","(","a","m","o","u","n","t",")">>, <<"M","e","s","s","a","g","e">>),
           Msg("m6", "o6", "o4", <<"a","c","c","o","u","n","t","B","a","l","a","n","c","e">>, <<"R","e","p","l","y">>) >>,
        << Ref("r1", <<"P","r","o","c","e","s","s","D","e","p","o","s","i","t">>, <<"P","r","o","c","e","s","s","D","e","p","o","s","i","t">>) >>)

\* Audit.xml: a lifeline without backing class; references an operation
\* "billing" that is no diagram and has no REF box, and "deposit", which the
\* case-insensitive lookup matches with DepositSequence
AuditFile ==
    SequenceFile(<<"A","u","d","i","t",".","x","m","l">>, "none",
        << Obj("o7", <<"t","e","l","l","e","r">>, Teller), Obj("o8", <<"j","o","u","r","n","a","l">>, Unknown) >>,
        << Msg("m7", "o7", "o8", <<"r","e","c","o","r","d","(","e","n","t","r","y",")">>, <<"M","e","s","s","a","g","e">>) >>,
        << Ref("r2", <<"R","E","F","_","b","i","l","l","i","n","g">>, <<"b","i","l","l","i","n","g">>), Ref("r3", <<"R","E","F","_","d","e","p","o","s","i","t">>, <<"d","e","p","o","s","i","t">>) >>)

\* an XML file without the Visual Paradigm root marker
BrokenSequenceFile ==
    SequenceFile(<<"B","r","o","k","e","n",".","x","m","l">>, "notSimple",
        << Obj("o11", <<"t","e","l","l","e","r">>, Teller), Obj("o12", <<"a","c","c","o","u","n","t","s">>, AccountService) >>,
        << Msg("m10", "o11", "o12", <<"p","r","o","c","e","s","s","D","e","p","o","s","i","t","(","a","m","o","u","n","t",")">>, <<"M","e","s","s","a","g","e">>) >>,
        << >>)

\* rtm.csv: id, name, sequence diagram and related sequence diagram columns
MatrixFile ==
    RtmFile(<<"r","t","m",".","c","s","v">>, "none",
        Csv(0, 1, 2, 3,
            << << <<"F","R","1">>, <<"D","e","p","o","s","i","t"," ","F","u","n","d","s">>, <<"D","e","p","o","s","i","t","S","e","q","u","e","n","c","e">>, <<"T","r","a","n","s","f","e","r">> >>,
               << <<"F","R","2">>, <<"A","u","d","i","t"," ","T","r","a","i","l">>, <<"A","u","d","i","t">>, <<>> >>,
               << <<"F","R","1">>, <<"D","e","p","o","s","i","t"," ","F","u","n","d","s">>, <<"T","r","a","n","s","f","e","r",";"," ","D","e","p","o","s","i","t","S","e","q","u","e","n","c","e">>, <<>> >> >>))

\* a CSV with a header line only
EmptyMatrixFile ==
    RtmFile(<<"e","m","p","t","y",".","c","s","v">>, "noDataRows", Csv(0, 1, 2, 3, << >>))

\* a class element with one operation
Cls(name, packageName) ==
    ClassElement(name, packageName, << Method(<<"r","u","n">>, << >>, Void) >>)

\* classes.xml: two classes in package bank, two outside any package, and
\* Teller once more as a bare reference
ClassesFile ==
    ClassFile(<<"c","l","a","s","s","e","s",".","x","m","l">>, "none",
        << Cls(Teller, <<"b","a","n","k">>), Cls(AccountService, <<"b","a","n","k">>),
           Cls(TransactionService, <<>>), Cls(REF, <<>>),
           ClassElement(Teller, <<>>, << >>) >>)

BrokenClassesFile ==
    ClassFile(<<"b","a","d","c","l","a","s","s","e","s",".","x","m","l">>, "parsererror", << Cls(Teller, <<"b","a","n","k">>) >>)

\* the files a user drops on the upload tabs
FilePool ==
    { DepositFile, TransferFile, BrokenSequenceFile,
      MatrixFile, EmptyMatrixFile, ClassesFile, BrokenClassesFile }

(***************************************************************************)
(* Parsers (utils/fileUtils.ts), from validation to the returned value     *)
(***************************************************************************)
Null == [null |-> TRUE]

\* processRTMFile: an empty CSV or one without id/name column yields [],
\* and so does any exception (caught inside)
processRTMFile(file) ==
    IF file.fault # "none" THEN <<>> ELSE RtmFunctions(file.csv)

\* processSequenceDiagramFile: null on parsererror, wrong root marker,
\* missing InteractionDiagram or missing root Frame, and on any exception
\* raised while the document is read (caught inside)
processSequenceDiagramFile(file, diagramId) ==
    IF file.fault # "none" \/ ReferencesThrow(file.references) THEN Null
    ELSE [id |-> diagramId,
          name |-> removeFirst(file.name, <<".","x","m","l">>),
          objects |-> ObjectNodes(file.objects, diagramId),
          messages |-> MessagesFrom(file.objects, diagramId, file.messages, 1),
          references |-> ReferencesFrom(file.references)]

\* processClassDiagramFile: null on parsererror, wrong root marker or
\* missing Models element; class ids are fresh
processClassDiagramFile(file, fileId) ==
    IF file.fault # "none" THEN Null
    ELSE LET classes == ClassCatalog(file.classes)
         IN [i \in 1..Len(classes) |->
               [id |-> <<fileId, i>>,
                name |-> classes[i].name,
                packageName |-> classes[i].packageName,
                methods |-> classes[i].methods,
                relatedFunctions |-> <<>>]]

(***************************************************************************)
(* Diagram families for the runs of generateCode                           *)
(***************************************************************************)
\* the lifelines of the DepositSequence variants
Lifelines ==
    << Obj("o1", <<"t","e","l","l","e","r">>, Teller), Obj("o2", <<"a","c","c","o","u","n","t","s">>, AccountService),
       Obj("g3", <<"c","l","e","r","k">>, ACTOR), Obj("g4", <<"l","e","d","g","e","r">>, TransactionService) >>

\* the lifeline a REF box becomes: type 'REF', named after its operation
RefBox == Obj("g5", <<"P","r","o","c","e","s","s","D","e","p","o","s","i","t">>, REF)

\* text and type of the third message of a variant
ExtraMessages ==
    { << <<"p","r","o","c","e","s","s","D","e","p","o","s","i","t","(","a","m","o","u","n","t",")">>, <<"M","e","s","s","a","g","e">> >>, << <<"a","c","c","o","u","n","t","B","a","l","a","n","c","e">>, <<"R","e","p","l","y">> >> }

\* what a variant references: nothing; an operation drawn as a REF box that
\* is no diagram; Audit, matched case-insensitively when it is loaded; the
\* diagram itself; an operation without box that is no diagram
RefChoices == { "none", "box", "audit", "self", "withdraw" }

VariantObjects(choice) == IF choice = "box" THEN Append(Lifelines, RefBox) ELSE Lifelines

VariantReferences(choice) ==
    CASE choice = "none" -> << >>
      [] choice = "box" -> << Ref("g7", <<"P","r","o","c","e","s","s","D","e","p","o","s","i","t">>, <<"P","r","o","c","e","s","s","D","e","p","o","s","i","t">>) >>
      [] choice = "audit" -> << Ref("g7", <<"R","E","F","_","a","u","d","i","t">>, <<"a","u","d","i","t">>) >>
      [] choice = "self" -> << Ref("g7", <<"R","E","F","_","D","e","p","o","s","i","t","S","e","q","u","e","n","c","e">>, <<"D","e","p","o","s","i","t","S","e","q","u","e","n","c","e">>) >>
      [] choice = "withdraw" -> << Ref("g7", <<"R","E","F","_","w","i","t","h","d","r","a","w">>, <<"w","i","t","h","d","r","a","w">>) >>

\* DepositSequence.xml with one more message between any two lifelines
VariantFile(from, to, extra, choice) ==
    SequenceFile(<<"D","e","p","o","s","i","t","S","e","q","u","e","n","c","e",".","x","m","l">>, "none",
        VariantObjects(choice),
        Append(DepositFile.messages, Msg("g6", from, to, extra[1], extra[2])),
        VariantReferences(choice))

VariantFiles ==
    UNION { { VariantFile(VariantObjects(choice)[i].id, VariantObjects(choice)[j].id,
                          extra, choice) :
                i \in 1..Len(VariantObjects(choice)),
                j \in 1..Len(VariantObjects(choice)),
                extra \in ExtraMessages } :
            choice \in RefChoices }

\* the diagram files loaded before a run, in upload order
VariantCollections ==
    UNION { { << v >>, << v, AuditFile >>, << AuditFile, v >> } : v \in VariantFiles }

(***************************************************************************)
(* Diagram families for the traversal: diagrams that reference each other  *)
(***************************************************************************)
\* references one diagram of the traversal family carries at most
MaxRefs == 2

\* REF labels: Audit (exact name), billing (matches Billing when loaded),
\* settle (no diagram)
RefLabels == { <<"A","u","d","i","t">>, <<"b","i","l","l","i","n","g">>, <<"s","e","t","t","l","e">> }

RefLists == UNION { [1..n -> RefLabels] : n \in 0..MaxRefs }

LabelledReferences(labels) ==
    [i \in 1..Len(labels) |-> Ref(<<"w", i>>, <<"R","E","F","_">> \o labels[i], labels[i])]

AuditWith(labels) ==
    SequenceFile(<<"A","u","d","i","t",".","x","m","l">>, "none", AuditFile.objects, AuditFile.messages,
                 LabelledReferences(labels))

BillingWith(labels) ==
    SequenceFile(<<"B","i","l","l","i","n","g",".","x","m","l">>, "none",
        << Obj("o9", <<"a","c","c","o","u","n","t","s">>, AccountService), Obj("o10", <<"t","e","l","l","e","r">>, Teller) >>,
        << Msg("m8", "o9", "o10", <<"c","o","n","f","i","r","m","(","r","e","c","e","i","p","t",")">>, <<"M","e","s","s","a","g","e">>),
           Msg("m9", "o10", "o9", <<"r","e","c","e","i","p","t">>, <<"R","e","p","l","y">>) >>,
        LabelledReferences(labels))

ReferenceCollections ==
    { << AuditWith(a) >> : a \in RefLists }
        \cup { << AuditWith(a), BillingWith(b) >> : a \in RefLists, b \in RefLists }

(***************************************************************************)
(* detectReturnMessage, tabulated over the messages of the input files     *)
(***************************************************************************)
MessageTexts ==
    LET files == FilePool \cup VariantFiles \cup { AuditFile, BillingWith(<< >>) }
        texts(f) == { << f.messages[i].name, MessageType(f.messages[i].type) >> :
                         i \in 1..Len(f.messages) }
    IN { t : t \in UNION { texts(f) : f \in files } }

\* the texts detectReturnMessage classifies as returns
ReturnTexts ==
    { t : t \in { u \in MessageTexts : IsReturnText(toLowerCase(u[1]), toLowerCase(u[2])) } }

detectReturnMessage(message) ==
    IF << message.name, message.type >> \in MessageTexts
    THEN << message.name, message.type >> \in ReturnTexts
    ELSE IsReturnText(toLowerCase(message.name), toLowerCase(message.type))

(***************************************************************************)
(* Call Graph Builder (AppContext, generateCode)                           *)
(***************************************************************************)
\* Array.prototype.find: the first element satisfying P, or Null
Find(seq, P(_)) ==
    IF \E i \in 1..Len(seq) : P(seq[i])
    THEN seq[CHOOSE i \in 1..Len(seq) : P(seq[i]) /\ \A j \in 1..(i - 1) : ~P(seq[j])]
    ELSE Null

\* Array.prototype.filter
RECURSIVE Filter(_, _)
Filter(seq, keep) ==
    IF seq = <<>> THEN <<>>
    ELSE IF Head(seq) \in keep THEN <<Head(seq)>> \o Filter(Tail(seq), keep)
    ELSE Filter(Tail(seq), keep)

Range(seq) == { seq[i] : i \in 1..Len(seq) }

\* concatenation of a sequence of sequences
RECURSIVE Flatten(_)
Flatten(seqs) == IF seqs = <<>> THEN <<>> ELSE Head(seqs) \o Flatten(Tail(seqs))

\* insertion order of a JavaScript Set or Map: first occurrences only
RECURSIVE Dedupe(_)
Dedupe(seq) ==
    IF seq = <<>> THEN <<>>
    ELSE LET init == Dedupe(SubSeq(seq, 1, Len(seq) - 1))
             last == seq[Len(seq)]
         IN IF last \in Range(init) THEN init ELSE Append(init, last)

mapOperationToClassName(operationName) ==
    LET lowerOp == toLowerCase(operationName)
        has(w) == includes(lowerOp, w)
    IN IF has(<<"d","e","p","o","s","i","t">>) THEN TransactionService
       ELSE IF has(<<"w","i","t","h","d","r","a","w">>) THEN TransactionService
       ELSE IF has(<<"t","r","a","n","s","f","e","r">>) THEN TransactionService
       ELSE IF has(<<"p","r","o","c","e","s","s">>) THEN TransactionService
       ELSE IF has(<<"i","n","s","e","r","t">>) \/ has(<<"s","a","v","e">>) \/ has(<<"s","t","o","r","e">>) THEN <<"D","a","t","a","S","e","r","v","i","c","e">>
       ELSE IF has(<<"u","p","d","a","t","e">>) \/ has(<<"m","o","d","i","f","y">>) THEN <<"D","a","t","a","S","e","r","v","i","c","e">>
       ELSE IF has(<<"t","r","a","n","s","f","o","r","m">>) \/ has(<<"c","o","n","v","e","r","t">>) THEN <<"T","r","a","n","s","f","o","r","m","S","e","r","v","i","c","e">>
       ELSE IF has(<<"v","a","l","i","d","a","t","e">>) \/ has(<<"c","h","e","c","k">>) THEN <<"V","a","l","i","d","a","t","i","o","n","S","e","r","v","i","c","e">>
       ELSE IF has(<<"c","a","l","c","u","l","a","t","e">>) \/ has(<<"c","o","m","p","u","t","e">>) THEN <<"C","a","l","c","u","l","a","t","i","o","n","S","e","r","v","i","c","e">>
       ELSE IF has(<<"r","e","q","u","e","s","t">>) \/ has(<<"c","a","l","l">>) THEN <<"R","e","q","u","e","s","t","S","e","r","v","i","c","e">>
       ELSE IF has(<<"r","e","s","p","o","n","s","e">>) \/ has(<<"r","e","p","l","y">>) THEN <<"R","e","s","p","o","n","s","e","S","e","r","v","i","c","e">>
       ELSE capitalize(operationName) \o <<"S","e","r","v","i","c","e">>

\* one callGraph.get(caller).add(callee), with the message it was executed
\* for ("-" when it was executed for no message).  The call graph is the
\* sequence of these additions, in execution order.
Edge(caller, callee, message) == [caller |-> caller, callee |-> callee, message |-> message]

ObjectById(diagram, id) == LET P(obj) == obj.id = id IN Find(diagram.objects, P)

\* the participant filter without its REF half
IsActorOnly(type) == type = ACTOR

IsActorOrRef(type) == type = ACTOR \/ type = REF

\* the additions of the message loop for one message (none when skipped)
EdgeBetween(fromObj, toObj, message) ==
    IF fromObj = Null \/ toObj = Null THEN <<>>
    ELSE IF fromObj.type = NoName \/ toObj.type = NoName THEN <<>>
    ELSE IF detectReturnMessage(message) THEN <<>>
    ELSE IF fromObj.type = toObj.type THEN <<>>
    ELSE IF IsActorOrRef(fromObj.type) \/ IsActorOrRef(toObj.type) THEN <<>>
    ELSE << Edge(fromObj.type, toObj.type, message.id) >>

MessageEdge(diagram, message) ==
    EdgeBetween(ObjectById(diagram, message.from), ObjectById(diagram, message.to), message)

\* diagram.messages.forEach, from message i on
RECURSIVE MessageEdgesFrom(_, _)
MessageEdgesFrom(diagram, i) ==
    IF i > Len(diagram.messages) THEN <<>>
    ELSE MessageEdge(diagram, diagram.messages[i]) \o MessageEdgesFrom(diagram, i + 1)

MessageEdges(diagram) == MessageEdgesFrom(diagram, 1)

\* lookup of a referenced diagram: exact name first, then the first diagram
\* whose lower-cased name contains, or is contained in, the lower-cased label
OrElse(found, other) == IF found # Null THEN found ELSE other

ResolveReference(diagrams, diagramName) ==
    LET exact(d) == d.name = diagramName
        partial(d) == \E a \in {toLowerCase(d.name)}, b \in {toLowerCase(diagramName)} :
                          includes(a, b) \/ includes(b, a)
    IN OrElse(Find(diagrams, exact), Find(diagrams, partial))

\* the lifeline standing for a reference: the first object carrying the
\* reference's name or of type 'REF'
RefObject(diagram, ref) ==
    LET isRefObject(obj) == obj.name = ref.name \/ obj.type = REF
    IN Find(diagram.objects, isRefObject)

\* the additions for one message around the REF box of an unresolved reference
RefMessageEdges(fromObj, toObj, msg, refObject, serviceClassName) ==
    IF fromObj = Null \/ toObj = Null THEN <<>>
    ELSE (IF msg.to = refObject.id /\ ~IsActorOrRef(fromObj.type)
          THEN << Edge(fromObj.type, serviceClassName, msg.id) >> ELSE <<>>)
         \o
         (IF msg.from = refObject.id /\ ~IsActorOrRef(toObj.type)
          THEN << Edge(serviceClassName, toObj.type, msg.id) >> ELSE <<>>)

\* the message loop around the REF box, from message i on
RECURSIVE RefEdgesFrom(_, _, _, _)
RefEdgesFrom(diagram, refObject, serviceClassName, i) ==
    IF i > Len(diagram.messages) THEN <<>>
    ELSE RefMessageEdges(ObjectById(diagram, diagram.messages[i].from),
                         ObjectById(diagram, diagram.messages[i].to),
                         diagram.messages[i], refObject, serviceClassName)
         \o RefEdgesFrom(diagram, refObject, serviceClassName, i + 1)

RefEdges(diagram, selectedClasses, refObject, serviceClassName) ==
    IF refObject # Null
    THEN RefEdgesFrom(diagram, refObject, serviceClassName, 1)
    ELSE [i \in 1..Len(selectedClasses) |->
             Edge(selectedClasses[i].name, serviceClassName, "-")]

\* edges added for a reference that resolves to no diagram
UnresolvedEdges(diagram, ref, selectedClasses) ==
    RefEdges(diagram, selectedClasses, RefObject(diagram, ref),
             mapOperationToClassName(ref.diagramName))

\* the traversal without its visited-name guard
NeverVisited(visited, diagram) == FALSE

\* the guard at the head of processSequenceDiagramRecursively
AlreadyVisited(visited, diagram) == diagram.name \in visited

\* processSequenceDiagramRecursively(diagram, visited): st is the pair of
\* the visited-name set and the additions executed so far
RECURSIVE ProcessDiagram(_, _, _, _), ProcessReferences(_, _, _, _, _),
          ProcessReference(_, _, _, _, _, _)
\* a traversal that adds the fallback edges for a followed reference too
FollowedAndStubbed(diagrams, selectedClasses, diagram, ref, refDiagram, st) ==
    IF ref.diagramName = NoName THEN st
    ELSE LET after == IF refDiagram # Null
                      THEN ProcessDiagram(diagrams, selectedClasses, refDiagram, st)
                      ELSE st
         IN [after EXCEPT !.edges = @ \o UnresolvedEdges(diagram, ref, selectedClasses)]

ProcessDiagram(diagrams, selectedClasses, diagram, st) ==
    IF AlreadyVisited(st.visited, diagram) THEN st
    ELSE ProcessReferences(diagrams, selectedClasses, diagram, 1,
            [visited |-> st.visited \cup {diagram.name},
             edges |-> st.edges \o MessageEdges(diagram)])

\* one iteration of diagram.references.forEach
ProcessReference(diagrams, selectedClasses, diagram, ref, refDiagram, st) ==
    IF ref.diagramName = NoName THEN st
    ELSE IF refDiagram # Null
    THEN ProcessDiagram(diagrams, selectedClasses, refDiagram, st)
    ELSE [st EXCEPT !.edges = @ \o UnresolvedEdges(diagram, ref, selectedClasses)]

ProcessReferences(diagrams, selectedClasses, diagram, i, st) ==
    IF i > Len(diagram.references) THEN st
    ELSE ProcessReferences(diagrams, selectedClasses, diagram, i + 1,
            ProcessReference(diagrams, selectedClasses, diagram, diagram.references[i],
                ResolveReference(diagrams, diagram.references[i].diagramName), st))

\* sequenceDiagrams.forEach(diagram => processSequenceDiagramRecursively(diagram)):
\* every top-level call starts from a fresh visited set
RECURSIVE BuildFrom(_, _, _, _)
BuildFrom(diagrams, selectedClasses, i, edges) ==
    IF i > Len(diagrams) THEN edges
    ELSE BuildFrom(diagrams, selectedClasses, i + 1,
            ProcessDiagram(diagrams, selectedClasses, diagrams[i],
                           [visited |-> {}, edges |-> edges]).edges)

BuildCallGraph(diagrams, selectedClasses) == BuildFrom(diagrams, selectedClasses, 1, <<>>)

\* the Map<string, Set<string>> the additions leave behind
Callers(adds) == Dedupe([i \in 1..Len(adds) |-> adds[i].caller])

Callees(adds, caller) ==
    LET from(e) == e.caller = caller
        mine == SelectSeq(adds, from)
    IN Dedupe([i \in 1..Len(mine) |-> mine[i].callee])

GraphEdges(adds) == { <<adds[i].caller, adds[i].callee>> : i \in 1..Len(adds) }


(***************************************************************************)
(* Stub/Driver Set Resolver (AppContext, generateCode)                     *)
(***************************************************************************)
ClassNames(classes) == { classes[i].name : i \in 1..Len(classes) }

\* every callee of a class under test, under test or not
AllCalleesOf(adds, selectedClasses, cls) == Callees(adds, cls.name)

\* callees of one class under test that are not themselves under test
StubsFor(adds, selectedClasses, cls) ==
    LET outside(c) == c \notin ClassNames(selectedClasses)
    IN SelectSeq(Callees(adds, cls.name), outside)

\* every caller of a class under test, under test or not
AllCallersOf(adds, selectedClasses, cls) ==
    LET calls(c) == cls.name \in Range(Callees(adds, c))
    IN SelectSeq(Callers(adds), calls)

\* callers of one class under test that are not themselves under test
DriversFor(adds, selectedClasses, cls) ==
    LET outside(c) == /\ cls.name \in Range(Callees(adds, c))
                      /\ c \notin ClassNames(selectedClasses)
    IN SelectSeq(Callers(adds), outside)

\* neededStubs and neededDrivers are Sets: insertion order, no repetition
NeededStubs(adds, selectedClasses) ==
    Dedupe(Flatten([i \in 1..Len(selectedClasses) |->
                        StubsFor(adds, selectedClasses, selectedClasses[i])]))

NeededDrivers(adds, selectedClasses) ==
    Dedupe(Flatten([i \in 1..Len(selectedClasses) |->
                        DriversFor(adds, selectedClasses, selectedClasses[i])]))

StubFileName(className) == className \o <<"S","t","u","b",".","j","a","v","a">>

DriverFileName(className) == className \o <<"D","r","i","v","e","r",".","j","a","v","a">>

SummaryFileName == <<"T","e","s","t","A","n","a","l","y","s","i","s","S","u","m","m","a","r","y",".","t","x","t">>

\* the first class under test, called by the driver class or not
FirstUnderTest(adds, selectedClasses, driverClassName) ==
    IF Len(selectedClasses) > 0 THEN selectedClasses[1].name ELSE <<"U","n","k","n","o","w","n","T","a","r","g","e","t">>

\* the first class under test the driver class calls, else the placeholder
DriverTarget(adds, selectedClasses, driverClassName) ==
    LET called(cls) == cls.name \in Range(Callees(adds, driverClassName))
        targetClasses == SelectSeq(selectedClasses, called)
    IN IF Len(targetClasses) > 0 THEN targetClasses[1].name ELSE <<"U","n","k","n","o","w","n","T","a","r","g","e","t">>

Artifact(fileName, type, relatedClass, target) ==
    [fileName |-> fileName, type |-> type, relatedClass |-> relatedClass, target |-> target]

\* push an artifact unless generatedFileNames already has its file name
RECURSIVE PushUnique(_, _)
PushUnique(codes, candidates) ==
    IF candidates = <<>> THEN codes
    ELSE LET c == Head(candidates)
             present == \E i \in 1..Len(codes) : codes[i].fileName = c.fileName
         IN PushUnique(IF present THEN codes ELSE Append(codes, c), Tail(candidates))

StubCodes(stubs) ==
    [i \in 1..Len(stubs) |-> Artifact(StubFileName(stubs[i]), "stub", stubs[i], NoName)]

DriverCodes(adds, selectedClasses, drivers) ==
    [i \in 1..Len(drivers) |->
        Artifact(DriverFileName(drivers[i]), "driver", drivers[i],
                 DriverTarget(adds, selectedClasses, drivers[i]))]

\* the summary pushed after every run
WithSummary(codes) == Append(codes, Artifact(SummaryFileName, "driver", <<"A","n","a","l","y","s","i","s">>, NoName))

\* the summary is pushed when nothing else was
OrSummary(codes) ==
    IF Len(codes) = 0
    THEN << Artifact(SummaryFileName, "driver", <<"A","n","a","l","y","s","i","s">>, NoName) >>
    ELSE codes

\* one stub per (class under test, callee) and one driver per (class under
\* test, caller), pushed as they are found: no target sets, no file-name set
CodesPerClassUnderTest(adds, selectedClasses) ==
    OrSummary(Flatten([i \in 1..Len(selectedClasses) |->
        StubCodes(StubsFor(adds, selectedClasses, selectedClasses[i]))
        \o DriverCodes(adds, selectedClasses,
                       DriversFor(adds, selectedClasses, selectedClasses[i]))]))

\* the file-name set seeded with the names of earlier runs' artifacts
CodesNotYetGenerated(adds, selectedClasses) ==
    LET fresh(c) == \A i \in 1..Len(generatedCodes) : generatedCodes[i].fileName # c.fileName
    IN OrSummary(SelectSeq(
           PushUnique(PushUnique(<<>>, StubCodes(NeededStubs(adds, selectedClasses))),
                      DriverCodes(adds, selectedClasses,
                                  NeededDrivers(adds, selectedClasses))),
           fresh))

\* newGeneratedCodes of one run: stubs, then drivers, else the summary
NewGeneratedCodes(adds, selectedClasses) ==
    OrSummary(PushUnique(PushUnique(<<>>, StubCodes(NeededStubs(adds, selectedClasses))),
                         DriverCodes(adds, selectedClasses,
                                     NeededDrivers(adds, selectedClasses))))

(***************************************************************************)
(* mapFunctionsToClasses (utils/fileUtils.ts)                              *)
(***************************************************************************)
\* diagramMap: keys in first-insertion order, each with the last diagram set
DiagramMap(diagrams) ==
    LET names == Dedupe([i \in 1..Len(diagrams) |-> diagrams[i].name])
        lastOf(n) == diagrams[CHOOSE i \in 1..Len(diagrams) :
                                /\ diagrams[i].name = n
                                /\ \A j \in (i + 1)..Len(diagrams) : diagrams[j].name # n]
    IN [i \in 1..Len(names) |-> lastOf(names[i])]

\* s.replace(/[_\s-]+/g, '')
RECURSIVE StripSeparators(_)
StripSeparators(s) ==
    IF s = <<>> THEN <<>>
    ELSE IF Head(s) \in {"_", " ", "-"} THEN StripSeparators(Tail(s))
    ELSE <<Head(s)>> \o StripSeparators(Tail(s))

\* s.replace(/^(ref\s+|sd\s+)/i, '')
StripRefPrefix(s) ==
    LET after(p) == RunEnd(s, Len(p), Spaces)
    IN IF startsWith(toLowerCase(s), <<"r","e","f">>) /\ after(<<"r","e","f">>) > 3
       THEN SubSeq(s, after(<<"r","e","f">>) + 1, Len(s))
       ELSE IF startsWith(toLowerCase(s), <<"s","d">>) /\ after(<<"s","d">>) > 2
       THEN SubSeq(s, after(<<"s","d">>) + 1, Len(s))
       ELSE s

\* the four lookups of getRelatedClassNamesFromDiagram, in order
LookupDiagram(dmap, diagramName) ==
    LET exact(d) == d.name = diagramName
        sameFolded(d) == toLowerCase(d.name) = toLowerCase(diagramName)
        partial(d) == includes(d.name, diagramName) \/ includes(diagramName, d.name)
        normalizedRef == StripSeparators(StripRefPrefix(toLowerCase(diagramName)))
        normalized(d) ==
            LET n == StripSeparators(toLowerCase(d.name))
            IN includes(n, normalizedRef) \/ includes(normalizedRef, n)
    IN IF Find(dmap, exact) # Null THEN Find(dmap, exact)
       ELSE IF Find(dmap, sameFolded) # Null THEN Find(dmap, sameFolded)
       ELSE IF Find(dmap, partial) # Null THEN Find(dmap, partial)
       ELSE Find(dmap, normalized)

ParticipantClasses(diagram) ==
    { diagram.objects[i].type : i \in 1..Len(diagram.objects) }
        \ { NoName, Unknown, ACTOR, REF }

\* getRelatedClassNamesFromDiagram(diagram, visited): st is the pair of the
\* visited-name set and the class names collected so far
RECURSIVE RelatedClassNames(_, _, _), RelatedThroughReferences(_, _, _, _)
RelatedClassNames(dmap, diagram, st) ==
    IF diagram.name \in st.visited THEN st
    ELSE RelatedThroughReferences(dmap, diagram, 1,
            [visited |-> st.visited \cup {diagram.name},
             names |-> st.names \cup ParticipantClasses(diagram)])

RelatedThroughReferences(dmap, diagram, i, st) ==
    IF i > Len(diagram.references) THEN st
    ELSE LET ref == diagram.references[i]
             refDiagram == LookupDiagram(dmap, ref.diagramName)
             next == IF ref.diagramName = NoName \/ refDiagram = Null THEN st
                     ELSE RelatedClassNames(dmap, refDiagram, st)
         IN RelatedThroughReferences(dmap, diagram, i + 1, next)

RelatedOfDiagram(dmap, diagram) ==
    RelatedClassNames(dmap, diagram, [visited |-> {}, names |-> {}]).names

\* class names related to one function through its diagram names
RelatedOfFunction(func, diagrams) ==
    LET dmap == DiagramMap(diagrams)
        forName(diagramName) ==
            LET exact(d) == d.name = diagramName
                possible(d) ==
                    \/ includes(toLowerCase(d.name), toLowerCase(diagramName))
                    \/ includes(toLowerCase(diagramName), toLowerCase(d.name))
            IN IF Find(dmap, exact) # Null
               THEN RelatedOfDiagram(dmap, Find(dmap, exact))
               ELSE UNION { RelatedOfDiagram(dmap, diagrams[i]) :
                              i \in { j \in 1..Len(diagrams) : possible(diagrams[j]) } }
    IN UNION { forName(func.sequenceDiagramNames[i]) :
                 i \in 1..Len(func.sequenceDiagramNames) }

\* relatedFunctions of one class after all functions were processed;
\* related[i] are the class names related to functions[i]
RECURSIVE AddFunctions(_, _, _, _)
AddFunctions(cls, functions, related, i) ==
    IF i > Len(functions) THEN cls
    ELSE LET func == functions[i]
             next == IF cls.name \in related[i]
                     THEN [cls EXCEPT !.relatedFunctions = Dedupe(Append(@, func.id))]
                     ELSE cls
         IN AddFunctions(next, functions, related, i + 1)

mapFunctionsToClasses(functions, diagrams, classes) ==
    LET related == [i \in 1..Len(functions) |-> RelatedOfFunction(functions[i], diagrams)]
    IN [k \in 1..Len(classes) |-> AddFunctions(classes[k], functions, related, 1)]

(***************************************************************************)
(* The two effects of AppProvider, run after a handler has set state.      *)
(* mapTriggered: systemFunctions, sequenceDiagrams or allClasses.length    *)
(* changed; filterTriggered: selectedFunctionId or allClasses changed.     *)
(***************************************************************************)
NoFunction == << "null" >>

MappingEffect(functions, diagrams, classes, mapTriggered) ==
    IF mapTriggered /\ Len(functions) > 0 /\ Len(classes) > 0 /\ Len(diagrams) > 0
    THEN mapFunctionsToClasses(functions, diagrams, classes)
    ELSE classes

MappingRuns(functions, diagrams, classes, mapTriggered) ==
    mapTriggered /\ Len(functions) > 0 /\ Len(classes) > 0 /\ Len(diagrams) > 0

FilterClasses(classes, functionId) ==
    LET related(cls) == functionId \in Range(cls.relatedFunctions)
    IN SelectSeq(classes, related)

(***************************************************************************)
(* State of AppProvider                                                    *)
(***************************************************************************)
\* addFile calls the model lets start in one behaviour
MaxUploads == 3

\* generateCode runs in one behaviour
MaxSessions == 2

NoRun == [ran |-> FALSE, threw |-> FALSE, diagrams |-> <<>>, classes |-> <<>>,
          selection |-> <<>>, selectedClasses |-> <<>>, adds |-> <<>>, codes |-> <<>>]

\* no traversal under way
NoWalk == [pc |-> "idle", top |-> 1, stack |-> <<>>, visited |-> {},
           entered |-> <<>>, edges |-> <<>>]

\* no parser call under way
NoParse == [pc |-> "idle", kind |-> "none", input |-> <<>>, out |-> <<>>]

\* the application before any upload
Fresh ==
    /\ uploadedFiles = <<>>
    /\ systemFunctions = <<>>
    /\ selectedFunctionId = NoFunction
    /\ allClasses = <<>>
    /\ filteredClasses = <<>>
    /\ selectedClassIds = <<>>
    /\ sequenceDiagrams = <<>>
    /\ generatedCodes = <<>>
    /\ codeSessions = <<>>
    /\ currentStep = 1
    /\ isLoading = FALSE
    /\ isGenerating = FALSE
    /\ pending = {}
    /\ serial = 0
    /\ lastRun = NoRun
    /\ walk = NoWalk

Init == Fresh /\ parse = NoParse

\* The effects after a handler left functions, diagrams, classes and
\* functionId in state: the mapping effect first, then the filter effect,
\* which also clears the class selection while a function is selected.
SetAfterEffects(mapped, refilter, functionId, selection, filtered) ==
    /\ allClasses' = mapped
    /\ filteredClasses' = IF ~refilter THEN filtered
                          ELSE IF functionId # NoFunction
                          THEN FilterClasses(mapped, functionId)
                          ELSE <<>>
    /\ selectedClassIds' = IF refilter /\ functionId # NoFunction THEN <<>>
                           ELSE selection

RunEffects(functions, diagrams, classes, functionId, selection, filtered, mapTriggered, filterTriggered) ==
    SetAfterEffects(MappingEffect(functions, diagrams, classes, mapTriggered),
                    filterTriggered \/ MappingRuns(functions, diagrams, classes, mapTriggered),
                    functionId, selection, filtered)

(***************************************************************************)
(* addFile: from the call to the suspension at the file read               *)
(***************************************************************************)
AddFileStart(file) ==
    /\ serial < MaxUploads
    /\ ~isLoading
    /\ serial' = serial + 1
    /\ pending' = pending \cup { [file |-> file, id |-> serial + 1] }
    /\ isLoading' = TRUE
    /\ UNCHANGED << uploadedFiles, systemFunctions, selectedFunctionId, allClasses,
                    filteredClasses, selectedClassIds, sequenceDiagrams,
                    generatedCodes, codeSessions, currentStep, isGenerating, lastRun, walk, parse >>

UploadedFile(call) == [id |-> call.id, name |-> call.file.name, type |-> call.file.type]

\* addFile: from the resumption after the read to the end of the handler
AddFileFinish(call) ==
    /\ call \in pending
    /\ pending' = pending \ {call}
    /\ LET file == call.file
           functions == IF file.type = "rtm" THEN processRTMFile(file) ELSE systemFunctions
           diagram == processSequenceDiagramFile(file, call.id)
           diagrams == IF file.type = "sequenceDiagram" /\ diagram # Null
                       THEN Append(sequenceDiagrams, diagram)
                       ELSE sequenceDiagrams
           parsed == processClassDiagramFile(file, call.id)
           setsClasses == file.type = "classDiagram" /\ file.fault = "none" /\ Len(parsed) > 0
           classes == IF setsClasses THEN parsed ELSE allClasses
           mapTriggered == \/ file.type = "rtm"
                           \/ file.type = "sequenceDiagram" /\ diagram # Null
                           \/ Len(classes) # Len(allClasses)
       IN /\ systemFunctions' = functions
          /\ sequenceDiagrams' = diagrams
          /\ RunEffects(functions, diagrams, classes, selectedFunctionId,
                        selectedClassIds, filteredClasses, mapTriggered, setsClasses)
    /\ uploadedFiles' = Append(uploadedFiles, UploadedFile(call))
    /\ isLoading' = FALSE
    /\ UNCHANGED << selectedFunctionId, generatedCodes, codeSessions, currentStep,
                    isGenerating, serial, lastRun, walk, parse >>

\* addFile: the FileReader reports an error, the catch block runs
AddFileReadError(call) ==
    /\ call \in pending
    /\ pending' = pending \ {call}
    /\ isLoading' = FALSE
    /\ UNCHANGED << uploadedFiles, systemFunctions, selectedFunctionId, allClasses,
                    filteredClasses, selectedClassIds, sequenceDiagrams,
                    generatedCodes, codeSessions, currentStep, isGenerating,
                    serial, lastRun, walk, parse >>

(***************************************************************************)
(* removeFile                                                              *)
(***************************************************************************)
RemoveFile(id) ==
    /\ \E i \in 1..Len(uploadedFiles) : uploadedFiles[i].id = id
    /\ LET isIt(f) == f.id = id
           fileToRemove == Find(uploadedFiles, isIt)
           others(f) == f.id # id
           functions == IF fileToRemove.type = "rtm" THEN <<>> ELSE systemFunctions
           functionId == IF fileToRemove.type = "rtm" THEN NoFunction ELSE selectedFunctionId
           otherName(d) == d.name # fileToRemove.name
           diagrams == IF fileToRemove.type = "sequenceDiagram"
                       THEN SelectSeq(sequenceDiagrams, otherName)
                       ELSE sequenceDiagrams
           classes == IF fileToRemove.type = "classDiagram" THEN <<>> ELSE allClasses
           filtered == IF fileToRemove.type = "classDiagram" THEN <<>> ELSE filteredClasses
           mapTriggered == \/ fileToRemove.type \in {"rtm", "sequenceDiagram"}
                           \/ Len(classes) # Len(allClasses)
           filterTriggered == \/ functionId # selectedFunctionId
                              \/ fileToRemove.type = "classDiagram"
       IN /\ systemFunctions' = functions
          /\ selectedFunctionId' = functionId
          /\ sequenceDiagrams' = diagrams
          /\ RunEffects(functions, diagrams, classes, functionId,
                        selectedClassIds, filtered, mapTriggered, filterTriggered)
          /\ uploadedFiles' = SelectSeq(uploadedFiles, others)
    /\ UNCHANGED << generatedCodes, codeSessions, currentStep, isLoading,
                    isGenerating, pending, serial, lastRun, walk, parse >>

(***************************************************************************)
(* setSelectedFunctionId, from the function picker                         *)
(***************************************************************************)
SetSelectedFunctionId(id) ==
    /\ \E i \in 1..Len(systemFunctions) : systemFunctions[i].id = id
    /\ id # selectedFunctionId
    /\ selectedFunctionId' = id
    /\ RunEffects(systemFunctions, sequenceDiagrams, allClasses, id,
                  selectedClassIds, filteredClasses, FALSE, TRUE)
    /\ UNCHANGED << uploadedFiles, systemFunctions, sequenceDiagrams, generatedCodes,
                    codeSessions, currentStep, isLoading, isGenerating, pending,
                    serial, lastRun, walk, parse >>

(***************************************************************************)
(* toggleClassSelection, from a checkbox of the class picker               *)
(***************************************************************************)
ToggleClassSelection(id) ==
    /\ selectedFunctionId # NoFunction
    /\ \E i \in 1..Len(filteredClasses) : filteredClasses[i].id = id
    /\ selectedClassIds' =
          IF id \in Range(selectedClassIds)
          THEN LET other(x) == x # id IN SelectSeq(selectedClassIds, other)
          ELSE Append(selectedClassIds, id)
    /\ UNCHANGED << uploadedFiles, systemFunctions, selectedFunctionId, allClasses,
                    filteredClasses, sequenceDiagrams, generatedCodes, codeSessions,
                    currentStep, isLoading, isGenerating, pending, serial, lastRun, walk, parse >>

(***************************************************************************)
(* generateCode, from the button of the class picker                       *)
(***************************************************************************)
SelectedClasses(classes, ids) ==
    LET chosen(cls) == cls.id \in Range(ids) IN SelectSeq(classes, chosen)

Session(selectedClasses, codes) ==
    [selectedClasses |-> [i \in 1..Len(selectedClasses) |-> selectedClasses[i].name],
     codes |-> codes]

\* the session list holding the session of the latest run only
OnlySession(sessions, session) == << session >>

\* setCodeSessions(prev => [...prev, newSession])
WithSession(sessions, session) == Append(sessions, session)

\* the artifact log holding the batch of the latest run only
OnlyBatch(codes, newGeneratedCodes) == newGeneratedCodes

\* setGeneratedCodes(prev => [...prev, ...newGeneratedCodes])
WithBatch(codes, newGeneratedCodes) == codes \o newGeneratedCodes

\* the end of the try block: the batch is appended, the session recorded
CommitRun(selectedClasses, adds, newGeneratedCodes) ==
    /\ generatedCodes' = WithBatch(generatedCodes, newGeneratedCodes)
    /\ codeSessions' = WithSession(codeSessions, Session(selectedClasses, newGeneratedCodes))
    /\ lastRun' = [ran |-> TRUE, threw |-> FALSE, diagrams |-> sequenceDiagrams,
                   classes |-> allClasses, selection |-> selectedClassIds,
                   selectedClasses |-> selectedClasses,
                   adds |-> adds, codes |-> newGeneratedCodes]

\* call graph first, then the batch resolved from it
ResolveRun(selectedClasses, adds) ==
    CommitRun(selectedClasses, adds, NewGeneratedCodes(adds, selectedClasses))

BuildRun(selectedClasses) ==
    ResolveRun(selectedClasses, BuildCallGraph(sequenceDiagrams, selectedClasses))

GenerateCode ==
    /\ selectedFunctionId # NoFunction
    /\ Len(filteredClasses) > 0
    /\ Len(selectedClassIds) > 0
    /\ ~isGenerating
    /\ BuildRun(SelectedClasses(allClasses, selectedClassIds))
    /\ currentStep' = 4
    /\ isGenerating' = FALSE
    /\ UNCHANGED << uploadedFiles, systemFunctions, selectedFunctionId, allClasses,
                    filteredClasses, selectedClassIds, sequenceDiagrams, isLoading,
                    pending, serial, walk, parse >>

\* the statements of the try block that can throw, in order: the call-graph
\* traversal, the synthesis of a stub, of a driver, of the summary
ThrowPoints == { "graph", "stubs", "drivers", "summary" }

\* newGeneratedCodes when the exception is raised at a point
PartialCodes(adds, selectedClasses, point) ==
    CASE point = "graph" -> <<>>
      [] point = "stubs" -> <<>>
      [] point = "drivers" -> PushUnique(<<>>, StubCodes(NeededStubs(adds, selectedClasses)))
      [] point = "summary" -> <<>>

\* the artifact log that keeps what a failed run had pushed
KeepPartial(codes, partial) == codes \o partial

\* the artifact log after the catch block: newGeneratedCodes is a local of
\* the run and setGeneratedCodes was not reached
AfterThrow(codes, partial) == codes

\* a run that reaches a point only when the statements before it let it
Reaches(adds, selectedClasses, point) ==
    CASE point = "graph" -> TRUE
      [] point = "stubs" -> NeededStubs(adds, selectedClasses) # <<>>
      [] point = "drivers" -> NeededDrivers(adds, selectedClasses) # <<>>
      [] point = "summary" -> NewGeneratedCodes(adds, selectedClasses)[1].fileName
                                  = SummaryFileName

ThrowAt(selectedClasses, adds, point) ==
    /\ Reaches(adds, selectedClasses, point)
    /\ generatedCodes' =
          AfterThrow(generatedCodes, PartialCodes(adds, selectedClasses, point))
    /\ lastRun' = [NoRun EXCEPT !.threw = TRUE,
                                !.codes = PartialCodes(adds, selectedClasses, point)]

\* generateCode with an exception raised inside the try block: catch shows
\* the failure notice, finally clears isGenerating
GenerateCodeThrows(point) ==
    /\ selectedFunctionId # NoFunction
    /\ Len(filteredClasses) > 0
    /\ Len(selectedClassIds) > 0
    /\ ~isGenerating
    /\ ThrowAt(SelectedClasses(allClasses, selectedClassIds),
               BuildCallGraph(sequenceDiagrams,
                              SelectedClasses(allClasses, selectedClassIds)), point)
    /\ isGenerating' = FALSE
    /\ UNCHANGED << uploadedFiles, systemFunctions, selectedFunctionId, allClasses,
                    filteredClasses, selectedClassIds, sequenceDiagrams, codeSessions,
                    currentStep, isLoading, pending, serial, walk, parse >>

(***************************************************************************)
(* resetAll                                                                *)
(***************************************************************************)
\* a reset that leaves the session list alone
ResetButSessions ==
    /\ uploadedFiles' = <<>>
    /\ systemFunctions' = <<>>
    /\ selectedFunctionId' = NoFunction
    /\ allClasses' = <<>>
    /\ filteredClasses' = <<>>
    /\ selectedClassIds' = <<>>
    /\ sequenceDiagrams' = <<>>
    /\ generatedCodes' = <<>>
    /\ currentStep' = 1
    /\ isLoading' = FALSE
    /\ isGenerating' = FALSE
    /\ lastRun' = NoRun
    /\ UNCHANGED << codeSessions, pending, serial, walk, parse >>

ResetAll ==
    /\ uploadedFiles' = <<>>
    /\ systemFunctions' = <<>>
    /\ selectedFunctionId' = NoFunction
    /\ allClasses' = <<>>
    /\ filteredClasses' = <<>>
    /\ selectedClassIds' = <<>>
    /\ sequenceDiagrams' = <<>>
    /\ generatedCodes' = <<>>
    /\ codeSessions' = <<>>
    /\ currentStep' = 1
    /\ isLoading' = FALSE
    /\ isGenerating' = FALSE
    /\ lastRun' = NoRun
    /\ UNCHANGED << pending, serial, walk, parse >>

Next ==
    \/ \E file \in FilePool : AddFileStart(file)
    \/ \E call \in pending : AddFileFinish(call)
    \/ \E call \in pending : AddFileReadError(call)
    \/ \E id \in 1..MaxUploads : RemoveFile(id)
    \/ \E id \in { <<"F","R","1">>, <<"F","R","2">> } : SetSelectedFunctionId(id)
    \/ \E i \in 1..Len(filteredClasses) : ToggleClassSelection(filteredClasses[i].id)
    \/ Len(codeSessions) < MaxSessions /\ GenerateCode
    \/ \E point \in ThrowPoints : GenerateCodeThrows(point)
    \/ ResetAll

Spec == Init /\ [][Next]_vars

(***************************************************************************)
(* Runs of generateCode on a loaded project.  The initial state is the one *)
(* AppProvider is in after rtm.csv, the diagram files (in order) and       *)
(* classes.xml were added: Init, then AddFileStart and AddFileFinish for   *)
(* each file.                                                              *)
(***************************************************************************)
Loaded(files) ==
    LET n == Len(files)
        calls == << [file |-> MatrixFile, id |-> 1] >>
                    \o [i \in 1..n |-> [file |-> files[i], id |-> i + 1]]
                    \o << [file |-> ClassesFile, id |-> n + 2] >>
        functions == processRTMFile(MatrixFile)
        diagrams == [i \in 1..n |-> processSequenceDiagramFile(files[i], i + 1)]
        classes == processClassDiagramFile(ClassesFile, n + 2)
    IN /\ uploadedFiles = [i \in 1..(n + 2) |-> UploadedFile(calls[i])]
       /\ systemFunctions = functions
       /\ sequenceDiagrams = diagrams
       /\ allClasses = MappingEffect(functions, diagrams, classes, TRUE)
       /\ selectedFunctionId = NoFunction
       /\ filteredClasses = <<>>
       /\ selectedClassIds = <<>>
       /\ generatedCodes = <<>>
       /\ codeSessions = <<>>
       /\ currentStep = 1
       /\ isLoading = FALSE
       /\ isGenerating = FALSE
       /\ pending = {}
       /\ serial = n + 2
       /\ lastRun = NoRun
       /\ walk = NoWalk
       /\ parse = NoParse

\* the DepositSequence variants up to the end of the first generateCode run
GenInit == \E files \in VariantCollections : Loaded(files)

GenNext ==
    \/ codeSessions = <<>> /\ \E id \in { <<"F","R","1">>, <<"F","R","2">> } : SetSelectedFunctionId(id)
    \/ codeSessions = <<>> /\ \E i \in 1..Len(filteredClasses) :
                                  ToggleClassSelection(filteredClasses[i].id)
    \/ codeSessions = <<>> /\ GenerateCode

GenSpec == GenInit /\ [][GenNext]_vars

\* repeated runs of generateCode on the same project
RerunCollections ==
    { << DepositFile >>, << TransferFile >>, << DepositFile, TransferFile >> }

RerunInit == \E files \in RerunCollections : Loaded(files)

RerunNext ==
    \/ \E id \in { <<"F","R","1">>, <<"F","R","2">> } : SetSelectedFunctionId(id)
    \/ \E i \in 1..Len(filteredClasses) : ToggleClassSelection(filteredClasses[i].id)
    \/ Len(codeSessions) < MaxSessions /\ GenerateCode
    \/ \E point \in ThrowPoints : GenerateCodeThrows(point)

RerunSpec == RerunInit /\ [][RerunNext]_vars

\* Process Deposit Flow.xml: the diagram behind the operation ProcessDeposit
FlowFile ==
    SequenceFile(<<"P","r","o","c","e","s","s"," ","D","e","p","o","s","i","t"," ","F","l","o","w",".","x","m","l">>, "none",
        << Obj("f1", <<"t","e","l","l","e","r">>, Teller), Obj("f2", <<"a","c","c","o","u","n","t","s">>, AccountService) >>,
        << Msg("f3", "f1", "f2", <<"p","r","o","c","e","s","s","D","e","p","o","s","i","t","(","a","m","o","u","n","t",")">>, <<"M","e","s","s","a","g","e">>) >>,
        << >>)

\* the DepositSequence variants with the REF box ProcessDeposit, loaded
\* before and after Process Deposit Flow
FlowCollections ==
    UNION { { << v, FlowFile >>, << FlowFile, v >> } :
              v \in { x \in VariantFiles : x.references # << >> /\
                                           x.references[1].diagramName = <<"P","r","o","c","e","s","s","D","e","p","o","s","i","t">> } }

FlowInit == \E files \in FlowCollections : Loaded(files)

FlowSpec == FlowInit /\ [][GenNext]_vars

\* the two REF boxes of the two-box diagrams
DepositBox == Obj("t3", <<"P","r","o","c","e","s","s","D","e","p","o","s","i","t">>, REF)

ValidateBox == Obj("t4", <<"V","a","l","i","d","a","t","e","A","c","c","o","u","n","t">>, REF)

\* DepositSequence.xml with two REF boxes, neither naming a loaded diagram:
\* one lifeline sends to the box ProcessDeposit, one to the box
\* ValidateAccount
TwoBoxFile(boxes, references, sender1, sender2) ==
    SequenceFile(<<"D","e","p","o","s","i","t","S","e","q","u","e","n","c","e",".","x","m","l">>, "none",
        << Obj("t1", <<"t","e","l","l","e","r">>, Teller), Obj("t2", <<"a","c","c","o","u","n","t","s">>, AccountService) >> \o boxes,
        << Msg("k1", sender1, "t3", <<"p","r","o","c","e","s","s","D","e","p","o","s","i","t","(","a","m","o","u","n","t",")">>, <<"M","e","s","s","a","g","e">>),
           Msg("k2", sender2, "t4", <<"v","a","l","i","d","a","t","e","A","c","c","o","u","n","t","(","i","d",")">>, <<"M","e","s","s","a","g","e">>) >>,
        references)

TwoBoxFiles ==
    { TwoBoxFile(boxes, references, sender1, sender2) :
        boxes \in { << DepositBox, ValidateBox >>, << ValidateBox, DepositBox >>,
                    << DepositBox >>, << ValidateBox >> },
        references \in { << Ref("q1", <<"P","r","o","c","e","s","s","D","e","p","o","s","i","t">>, <<"P","r","o","c","e","s","s","D","e","p","o","s","i","t">>),
                            Ref("q2", <<"V","a","l","i","d","a","t","e","A","c","c","o","u","n","t">>, <<"V","a","l","i","d","a","t","e","A","c","c","o","u","n","t">>) >>,
                         << Ref("q2", <<"V","a","l","i","d","a","t","e","A","c","c","o","u","n","t">>, <<"V","a","l","i","d","a","t","e","A","c","c","o","u","n","t">>),
                            Ref("q1", <<"P","r","o","c","e","s","s","D","e","p","o","s","i","t">>, <<"P","r","o","c","e","s","s","D","e","p","o","s","i","t">>) >> },
        sender1 \in { "t1", "t2" }, sender2 \in { "t1", "t2" } }

TwoBoxInit == \E file \in TwoBoxFiles : Loaded(<< file >>)

TwoBoxSpec == TwoBoxInit /\ [][GenNext]_vars

\* REF labels of the Audit and Billing diagrams: the three of the traversal
\* and AuditBilling, which both diagram names are contained in
UnionLabels == RefLabels \cup { <<"A","u","d","i","t","B","i","l","l","i","n","g">> }

UnionLists == UNION { [1..n -> UnionLabels] : n \in 0..MaxRefs }

\* Audit alone, and Audit with Billing in both upload orders
UnionCollections ==
    { << AuditWith(a) >> : a \in UnionLists }
        \cup UNION { { << AuditWith(a), BillingWith(b) >>, << BillingWith(b), AuditWith(a) >> } :
                        a \in UnionLists, b \in { << >>, << <<"A","u","d","i","t">> >>, << <<"s","e","t","t","l","e">> >> } }

UnionInit == \E files \in UnionCollections : Loaded(files)

UnionSpec == UnionInit /\ [][GenNext]_vars

\* uploads and removals only, from the empty state
UploadNext ==
    \/ \E file \in FilePool : AddFileStart(file)
    \/ \E call \in pending : AddFileFinish(call)
    \/ \E call \in pending : AddFileReadError(call)
    \/ \E id \in 1..MaxUploads : RemoveFile(id)

UploadSpec == Init /\ [][UploadNext]_vars

\* uploads whose file read succeeds, and resets, from the empty state
ResetNext ==
    \/ \E file \in FilePool : AddFileStart(file)
    \/ \E call \in pending : AddFileFinish(call)
    \/ ResetAll

ResetSpec == Init /\ [][ResetNext]_vars

(***************************************************************************)
(* The call-graph traversal of generateCode, one call, one reference and   *)
(* one return at a time.  walk.stack holds the activations of              *)
(* processSequenceDiagramRecursively (diagram, index of the next           *)
(* reference), walk.entered the diagram names whose body was executed in   *)
(* the current top-level call.                                             *)
(***************************************************************************)
\* nesting of activations the traversal may reach
MaxDepth == 3

WalkSelectedClasses == SelectedClasses(allClasses, selectedClassIds)

\* processSequenceDiagramRecursively(diagram, visited) up to its reference loop
Call(w, diagram) ==
    IF AlreadyVisited(w.visited, diagram) THEN w
    ELSE [w EXCEPT !.visited = @ \cup {diagram.name},
                   !.entered = Append(@, diagram.name),
                   !.edges = @ \o MessageEdges(diagram),
                   !.stack = Append(@, [diagram |-> diagram, i |-> 1])]

Frame == walk.stack[Len(walk.stack)]

\* the top activation with its reference index advanced
Advanced == [walk EXCEPT !.stack[Len(walk.stack)].i = @ + 1]

WalkUnchanged ==
    UNCHANGED << uploadedFiles, systemFunctions, selectedFunctionId, allClasses,
                 filteredClasses, selectedClassIds, sequenceDiagrams, generatedCodes,
                 codeSessions, currentStep, isLoading, isGenerating, pending, serial,
                 lastRun, parse >>

\* generateCode is entered: the call graph is empty
WalkStart ==
    /\ walk.pc = "idle"
    /\ selectedFunctionId # NoFunction
    /\ Len(filteredClasses) > 0
    /\ Len(selectedClassIds) > 0
    /\ walk' = [NoWalk EXCEPT !.pc = "running"]
    /\ WalkUnchanged

\* sequenceDiagrams.forEach: the next top-level call, with a fresh visited set
WalkTop ==
    /\ walk.pc = "running"
    /\ walk.stack = <<>>
    /\ walk.top <= Len(sequenceDiagrams)
    /\ walk' = Call([walk EXCEPT !.top = @ + 1, !.visited = {}, !.entered = <<>>],
                    sequenceDiagrams[walk.top])
    /\ WalkUnchanged

\* a reference that names a loaded diagram: the recursive call
WalkDescend ==
    /\ walk.pc = "running"
    /\ walk.stack # <<>>
    /\ Frame.i <= Len(Frame.diagram.references)
    /\ Len(walk.stack) < MaxDepth
    /\ Frame.diagram.references[Frame.i].diagramName # NoName
    /\ \E refDiagram \in { ResolveReference(sequenceDiagrams,
                                Frame.diagram.references[Frame.i].diagramName) } :
          /\ refDiagram # Null
          /\ \E w \in { Call(Advanced, refDiagram) } : walk' = w
    /\ WalkUnchanged

\* a reference that names no loaded diagram: the fallback edges
WalkUnresolved ==
    /\ walk.pc = "running"
    /\ walk.stack # <<>>
    /\ Frame.i <= Len(Frame.diagram.references)
    /\ Frame.diagram.references[Frame.i].diagramName # NoName
    /\ ResolveReference(sequenceDiagrams,
                        Frame.diagram.references[Frame.i].diagramName) = Null
    /\ \E refObject \in { RefObject(Frame.diagram, Frame.diagram.references[Frame.i]) },
          serviceClassName \in
              { mapOperationToClassName(Frame.diagram.references[Frame.i].diagramName) } :
          walk' = [Advanced EXCEPT !.edges =
                      @ \o RefEdges(Frame.diagram, WalkSelectedClasses,
                                    refObject, serviceClassName)]
    /\ WalkUnchanged

\* the reference loop of the top activation is over: it returns
WalkReturn ==
    /\ walk.pc = "running"
    /\ walk.stack # <<>>
    /\ Frame.i > Len(Frame.diagram.references)
    /\ walk' = [walk EXCEPT !.stack = SubSeq(@, 1, Len(@) - 1)]
    /\ WalkUnchanged

\* the last top-level call returned: the call graph is built
WalkFinish ==
    /\ walk.pc = "running"
    /\ walk.stack = <<>>
    /\ walk.top > Len(sequenceDiagrams)
    /\ walk' = [walk EXCEPT !.pc = "done"]
    /\ WalkUnchanged

WalkStep == WalkTop \/ WalkReturn \/ WalkFinish \/ WalkDescend \/ WalkUnresolved

WalkInit == \E files \in ReferenceCollections : Loaded(files)

WalkNext ==
    \/ walk.pc = "idle" /\ \E id \in { <<"F","R","1">>, <<"F","R","2">> } : SetSelectedFunctionId(id)
    \/ walk.pc = "idle" /\ \E i \in 1..Len(filteredClasses) :
                              ToggleClassSelection(filteredClasses[i].id)
    \/ WalkStart
    \/ WalkTop
    \/ WalkDescend
    \/ WalkUnresolved
    \/ WalkReturn
    \/ WalkFinish

WalkSpec == WalkInit /\ [][WalkNext]_vars

\* generateCode runs to completion once entered: JavaScript does not
\* preempt a synchronous function
WalkFairSpec == WalkInit /\ [][WalkNext]_vars /\ WF_vars(WalkStep)

\* the traversal in steps builds the call graph of BuildCallGraph
WalkBuildsCallGraph ==
    walk.pc = "done" => walk.edges = BuildCallGraph(sequenceDiagrams, WalkSelectedClasses)

(***************************************************************************)
(* The file parsers on their own: a parser is handed an input and returns. *)
(***************************************************************************)
ParseUnchanged ==
    UNCHANGED << uploadedFiles, systemFunctions, selectedFunctionId, allClasses,
                 filteredClasses, selectedClassIds, sequenceDiagrams, generatedCodes,
                 codeSessions, currentStep, isLoading, isGenerating, pending, serial,
                 lastRun, walk >>

Returned(kind, out) ==
    /\ parse.pc = "ready"
    /\ parse.kind = kind
    /\ parse' = [parse EXCEPT !.pc = "done", !.out = out]
    /\ ParseUnchanged

\* data rows of a requirements matrix
MaxRows == 3

\* data rows: a function in two rows with overlapping diagrams, a row
\* without name, one without id, one without both, one with the id only
RowPool ==
    { << <<"F","R","1">>, <<"D","e","p","o","s","i","t">>, <<"A">>, <<"B">> >>,
      << <<"F","R","1">>, <<"D","e","p","o","s","i","t">>, <<"B",";"," ","A">>, <<>> >>,
      << <<"F","R","2">>, <<>>, <<"'","A","'",","," ","A">>, <<"A">> >>,
      << <<>>, <<>>, <<"C">>, <<>> >>,
      << <<>>, <<"A","u","d","i","t">>, <<>>, <<"A","|","C">> >>,
      << <<"F","R","2">>, <<"A","u","d","i","t">>, <<>>, <<>> >>,
      << <<" ","F","R","1"," ">> >> }

\* what the header resolves: all four columns; no id column; the id and the
\* sequence column only; neither id nor name
HeaderPool == { << 0, 1, 2, 3 >>, << -1, 1, 2, 3 >>, << 0, -1, 2, -1 >>, << -1, -1, 2, 3 >> }

RtmInputs ==
    { Csv(h[1], h[2], h[3], h[4], rows) :
        h \in HeaderPool, rows \in UNION { [1..n -> RowPool] : n \in 0..MaxRows } }

RtmInit ==
    /\ Fresh
    /\ \E csv \in RtmInputs : parse = [pc |-> "ready", kind |-> "rtm", input |-> csv, out |-> <<>>]

ParseRtm == Returned("rtm", RtmFunctions(parse.input))

RtmSpec == RtmInit /\ [][ParseRtm]_vars

\* class elements of a document
MaxElements == 3

Open == Method(<<"o","p","e","n">>, << >>, Void)

OpenInt == Method(<<"o","p","e","n">>, << <<"i","n","t">> >>, Void)

Close == Method(<<"c","l","o","s","e">>, << >>, Void)

CloseInt == Method(<<"c","l","o","s","e">>, << >>, <<"i","n","t">>)

Audit == Method(<<"a","u","d","i","t">>, << >>, Void)

\* Account without package, in package bank, in package core and as a bare
\* reference; a class with a skipped name; a class with a package only
ElementPool ==
    { ClassElement(<<"A","c","c","o","u","n","t">>, <<>>, << Open >>),
      ClassElement(<<"A","c","c","o","u","n","t">>, <<"b","a","n","k">>, << Close, OpenInt >>),
      ClassElement(<<"A","c","c","o","u","n","t">>, <<"b","a","n","k">>, << CloseInt >>),
      ClassElement(<<"A","c","c","o","u","n","t">>, <<>>, << >>),
      ClassElement(<<"A","c","c","o","u","n","t">>, <<"c","o","r","e">>, << Open >>),
      ClassElement(<<"A","c","c","o","u","n","t">>, <<>>, << Audit, Open >>),
      ClassElement(<<"T","e","l","l","e","r">>, <<"c","o","r","e">>, << >>),
      ClassElement(<<"C","l","a","s","s","R","o","o","m">>, <<"b","a","n","k">>, << Open >>) }

ClassInputs == UNION { [1..n -> ElementPool] : n \in 0..MaxElements }

ClassInit ==
    /\ Fresh
    /\ \E classElements \in ClassInputs :
          parse = [pc |-> "ready", kind |-> "classes", input |-> classElements, out |-> <<>>]

ParseClasses == Returned("classes", ClassCatalog(parse.input))

ClassSpec == ClassInit /\ [][ParseClasses]_vars

\* message elements of a document
MaxMessages == 2

\* shapes: a lifeline with class, one whose model has no BaseClassifier, an
\* actor, a REF box, a lifeline without Model attribute
ShapePool ==
    { Obj("a", <<"t","e","l","l","e","r">>, <<"T","e","l","l","e","r">>), Obj("b", <<"g","h","o","s","t">>, NoClassifier),
      Obj("c", <<"c","l","e","r","k">>, ACTOR), Obj("a", <<"D","e","p","o","s","i","t">>, REF), Obj("", <<"s","t","r","a","y">>, <<"T","e","l","l","e","r">>) }

ShapeLists == UNION { [1..n -> ShapePool] : n \in 0..2 }

\* message elements between the models a, b and c, and one without source
MessageElementPool ==
    { Msg(<< "m", from, to >>, from, to, <<"r","u","n","(",")">>, <<"M","e","s","s","a","g","e">>) :
        from \in { "a", "b", "c" }, to \in { "a", "b", "c" } }
    \cup { Msg(<< "m", "", "c" >>, "", "c", <<"r","u","n","(",")">>, <<>>) }

MessageElementLists == UNION { [1..n -> MessageElementPool] : n \in 0..MaxMessages }

SequenceDocuments ==
    { SequenceFile(<<"D","e","p","o","s","i","t",".","x","m","l">>, "none", shapes, messageElements, << >>) :
        shapes \in ShapeLists, messageElements \in MessageElementLists }

SequenceInit ==
    /\ Fresh
    /\ \E file \in SequenceDocuments :
          parse = [pc |-> "ready", kind |-> "sequence", input |-> file, out |-> <<>>]

ParseSequence == Returned("sequence", processSequenceDiagramFile(parse.input, 1))

SequenceSpec == SequenceInit /\ [][ParseSequence]_vars

(***************************************************************************)
(* The reference lookup of the call-graph builder on its own               *)
(***************************************************************************)
\* loaded diagrams of a lookup
MaxDiagrams == 3

DiagramNames == { <<"D","e","p","o","s","i","t">>, <<"d","e","p","o","s","i","t">>, <<"D","e","p","o","s","i","t","F","l","o","w">>, <<"D","e","p","o","s","i","t"," ","F","l","o","w">>, <<"d","e","_","p","o","s","i","t">> }

RefNames == { <<"D","e","p","o","s","i","t">>, <<"d","e","p","o","s","i","t">>, <<"D","E","P","O","S","I","T">>, <<"d","e","p","o","s","i","t","f","l","o","w">> }

\* a loaded diagram without participants
Bare(name) == [id |-> name, name |-> name, objects |-> <<>>, messages |-> <<>>,
               references |-> <<>>]

\* collections of diagrams with different names, in every order
BareCollections ==
    { [i \in 1..Len(names) |-> Bare(names[i])] :
        names \in { s \in UNION { [1..n -> DiagramNames] : n \in 0..MaxDiagrams } :
                      \A i, j \in 1..Len(s) : i # j => s[i] # s[j] } }

ResolveInit ==
    /\ Fresh
    /\ \E diagrams \in BareCollections, diagramName \in RefNames :
          parse = [pc |-> "ready", kind |-> "resolve",
                   input |-> [diagrams |-> diagrams, diagramName |-> diagramName],
                   out |-> <<>>]

ResolveLabel ==
    Returned("resolve", ResolveReference(parse.input.diagrams, parse.input.diagramName))

ResolveSpec == ResolveInit /\ [][ResolveLabel]_vars

(***************************************************************************)
(* The sequence diagram parser on documents with REF occurrences           *)
(***************************************************************************)
\* occurrences of a document
MaxLabels == 2

\* Name attributes of an occurrence: prefix tokens alone, a prefixed and a
\* plain diagram name, no name, a blank name
LabelPool ==
    { <<"r","e","f">>, <<"s","d">>, <<"S","e","q">>, <<"s","e","q","u","e","n","c","e">>, <<"d","i","a","g","r","a","m">>, <<"r","e","f","s","d"," ">>, <<"r","e","f"," ","D","e","p","o","s","i","t">>,
      <<"D","e","p","o","s","i","t">>, <<>>, <<" "," ">> }

\* the occurrence with or without an operation that names the diagram
OccurrencePool ==
    { Ref(<< "o", label, found >>, label, found) :
        label \in LabelPool, found \in { NoName, <<"D","e","p","o","s","i","t">> } }

OccurrenceLists == UNION { [1..n -> OccurrencePool] : n \in 0..MaxLabels }

LabelDocuments ==
    { SequenceFile(<<"D","e","p","o","s","i","t",".","x","m","l">>, "none",
                   << Obj("a", <<"t","e","l","l","e","r">>, <<"T","e","l","l","e","r">>) >>
                       \o [k \in 1..Len(occurrences) |->
                             Obj(<< "b1", "b2", "b3" >>[k], occurrences[k].name, REF)],
                   << >>, occurrences) :
        occurrences \in OccurrenceLists }

LabelInit ==
    /\ Fresh
    /\ \E file \in LabelDocuments :
          parse = [pc |-> "ready", kind |-> "sequence", input |-> file, out |-> <<>>]

LabelSpec == LabelInit /\ [][ParseSequence]_vars

(***************************************************************************)
(* Properties of the call graph of a run                                   *)
(***************************************************************************)
\* the class names under test in the latest run
UnderTest == ClassNames(lastRun.selectedClasses)

\* the edges of the latest run's call graph
RunEdges == GraphEdges(lastRun.adds)

\* the message of the latest run's diagrams an addition was executed for
MessagesWithId(id) ==
    UNION { { lastRun.diagrams[d].messages[i] : i \in { j \in 1..Len(lastRun.diagrams[d].messages) :
                                                         lastRun.diagrams[d].messages[j].id = id } } :
            d \in 1..Len(lastRun.diagrams) }

\* C1: after a generateCode run, the call graph holds no edge from a type
\* name to itself, whether the edge came from a message or from the
\* fallback for an unresolved reference.
C1_NoSelfEdge ==
    lastRun.ran => \A e \in RunEdges : e[1] # e[2]

\* C2: after a generateCode run, no edge of the call graph has ACTOR or REF
\* as caller or as callee.
C2_NoActorOrRefEndpoint ==
    lastRun.ran => \A e \in RunEdges : e[1] \notin {ACTOR, REF} /\ e[2] \notin {ACTOR, REF}

\* C2 witness: a run over a diagram in which a class lifeline calls the REF
\* box of an unresolved reference and an actor calls a class lifeline, and
\* the graph has edges.
C2_Witness ==
    /\ lastRun.ran
    /\ RunEdges # {}
    /\ \E d \in 1..Len(lastRun.diagrams) :
          LET diagram == lastRun.diagrams[d]
          IN /\ \E i \in 1..Len(diagram.messages) :
                   /\ ObjectById(diagram, diagram.messages[i].to).type = REF
                   /\ ObjectById(diagram, diagram.messages[i].from).type = Teller
                   /\ ~detectReturnMessage(diagram.messages[i])
             /\ \E i \in 1..Len(diagram.references) :
                   ResolveReference(lastRun.diagrams, diagram.references[i].diagramName) = Null
    /\ \E e \in RunEdges : e[1] = Teller /\ e[2] = TransactionService

\* no diagram name is entered twice in one top-level call
NoReentry ==
    \A i, j \in 1..Len(walk.entered) : i # j => walk.entered[i] # walk.entered[j]

\* C3: call-graph building terminates for every collection of diagrams,
\* cyclic and self-referencing ones included, and each diagram name is
\* entered at most once per traversal.
C3_TraversalTerminates ==
    /\ []NoReentry
    /\ (walk.pc = "running") ~> (walk.pc = "done")

\* C3 witness: the traversal is over for a collection in which Audit
\* references itself and Billing, Billing references Audit back, and the last
\* top-level call entered both.
C3_Witness ==
    /\ walk.pc = "done"
    /\ Len(sequenceDiagrams) = 2
    /\ \E i \in 1..Len(sequenceDiagrams[1].references) :
          sequenceDiagrams[1].references[i].diagramName = <<"A","u","d","i","t">>
    /\ \E i \in 1..Len(sequenceDiagrams[1].references) :
          sequenceDiagrams[1].references[i].diagramName = <<"b","i","l","l","i","n","g">>
    /\ \E i \in 1..Len(sequenceDiagrams[2].references) :
          sequenceDiagrams[2].references[i].diagramName = <<"A","u","d","i","t">>
    /\ walk.entered = << <<"B","i","l","l","i","n","g">>, <<"A","u","d","i","t">> >>

\* C4: the call graph of a run holds no edge added for a message that
\* detectReturnMessage classifies as a return, whatever the endpoints of the
\* message and whether or not its diagram has unresolved references.
C4_NoEdgeFromReturn ==
    lastRun.ran =>
        \A i \in 1..Len(lastRun.adds) :
            \A m \in MessagesWithId(lastRun.adds[i].message) : ~detectReturnMessage(m)

(***************************************************************************)
(* Properties of the batch of a run                                        *)
(***************************************************************************)
RunCodes == Range(lastRun.codes)

FileNames(codes) == { codes[i].fileName : i \in 1..Len(codes) }

\* callees of a class under test that are not under test
StubTargets == { e[2] : e \in { x \in RunEdges : x[1] \in UnderTest /\ x[2] \notin UnderTest } }

\* callers of a class under test that are not under test
DriverTargets == { e[1] : e \in { x \in RunEdges : x[2] \in UnderTest /\ x[1] \notin UnderTest } }

\* C5: the stub files of a run are exactly c + "Stub.java" for the callees c,
\* not under test, of the classes under test, each of type stub.
C5_StubFiles ==
    lastRun.ran =>
        /\ { c.fileName : c \in { x \in RunCodes : x.type = "stub" } }
              = { StubFileName(c) : c \in StubTargets }
        /\ \A c \in RunCodes : endsWith(c.fileName, <<"S","t","u","b",".","j","a","v","a">>) => c.type = "stub"

\* C5 witness: the only edge is Teller -> AccountService, Teller alone is
\* under test, and the batch is AccountServiceStub.java and nothing else.
C5_Witness ==
    /\ lastRun.ran
    /\ RunEdges = { << Teller, AccountService >> }
    /\ UnderTest = { Teller }
    /\ FileNames(lastRun.codes) = { <<"A","c","c","o","u","n","t","S","e","r","v","i","c","e","S","t","u","b",".","j","a","v","a">> }
    /\ Len(lastRun.codes) = 1

\* C6: the driver files of a run are exactly c + "Driver.java" for the
\* callers c, not under test, of the classes under test.
C6_DriverFiles ==
    lastRun.ran =>
        { c.fileName : c \in { x \in RunCodes : endsWith(x.fileName, <<"D","r","i","v","e","r",".","j","a","v","a">>) } }
            = { DriverFileName(c) : c \in DriverTargets }

\* C6 witness: the only edge is Teller -> AccountService, AccountService
\* alone is under test, and the batch is TellerDriver.java and nothing else.
C6_Witness ==
    /\ lastRun.ran
    /\ RunEdges = { << Teller, AccountService >> }
    /\ UnderTest = { AccountService }
    /\ FileNames(lastRun.codes) = { <<"T","e","l","l","e","r","D","r","i","v","e","r",".","j","a","v","a">> }
    /\ Len(lastRun.codes) = 1

\* C7: a run emits TestAnalysisSummary.txt exactly when it has no stub
\* target and no driver target, and then the batch is that one artifact.
C7_SummaryIffNoTargets ==
    lastRun.ran =>
        /\ (SummaryFileName \in FileNames(lastRun.codes))
              <=> (StubTargets = {} /\ DriverTargets = {})
        /\ SummaryFileName \in FileNames(lastRun.codes) =>
              /\ Len(lastRun.codes) = 1
              /\ \A c \in RunCodes : /\ ~endsWith(c.fileName, <<"S","t","u","b",".","j","a","v","a">>)
                                     /\ ~endsWith(c.fileName, <<"D","r","i","v","e","r",".","j","a","v","a">>)

\* C7 witness: Teller and AccountService are both under test, the only edge
\* is Teller -> AccountService, and the batch is the summary.
C7_Witness ==
    /\ lastRun.ran
    /\ RunEdges = { << Teller, AccountService >> }
    /\ UnderTest = { Teller, AccountService }
    /\ FileNames(lastRun.codes) = { SummaryFileName }

\* C8: no two artifacts of the batch of one run have the same file name.
C8_UniqueFileNames ==
    lastRun.ran =>
        \A i, j \in 1..Len(lastRun.codes) :
            i # j => lastRun.codes[i].fileName # lastRun.codes[j].fileName

\* C8 witness: two classes under test call the same class, which is not
\* under test, and its stub is in the batch.
C8_Witness ==
    /\ lastRun.ran
    /\ { Teller, TransactionService } \subseteq UnderTest
    /\ { << Teller, AccountService >>, << TransactionService, AccountService >> }
          \subseteq RunEdges
    /\ AccountService \notin UnderTest
    /\ <<"A","c","c","o","u","n","t","S","e","r","v","i","c","e","S","t","u","b",".","j","a","v","a">> \in FileNames(lastRun.codes)

\* C9: a generateCode run on the diagrams, the class catalog and the class
\* selection of the run before it produces a batch with the same set of file
\* names as that run's batch.
C9_SameFileNamesOnRerun ==
    [][ ( /\ Len(codeSessions) >= 1
          /\ Len(codeSessions') = Len(codeSessions) + 1
          /\ lastRun.ran
          /\ lastRun.diagrams = sequenceDiagrams
          /\ lastRun.classes = allClasses
          /\ Range(lastRun.selection) = Range(selectedClassIds) )
        => FileNames(codeSessions'[Len(codeSessions')].codes)
              = FileNames(codeSessions[Len(codeSessions)].codes) ]_vars

\* C9 witness: two consecutive runs with the same classes under test, both
\* with a stub in their batch, and both batches in generatedCodes.
C9_Witness ==
    /\ Len(codeSessions) = 2
    /\ codeSessions[1].selectedClasses = codeSessions[2].selectedClasses
    /\ \E c \in Range(codeSessions[1].codes) : c.type = "stub"
    /\ FileNames(codeSessions[1].codes) = FileNames(codeSessions[2].codes)
    /\ generatedCodes = codeSessions[1].codes \o codeSessions[2].codes

(***************************************************************************)
(* Properties of addFile                                                   *)
(***************************************************************************)
\* names of the files whose parser rejects them
RejectedNames == { f.name : f \in { x \in FilePool : x.fault # "none" } }

\* C10: a file whose parsing fails with a format error is not in the
\* uploaded-file list after addFile, and nothing derived from it is in state.
C10_RejectedFileNotListed ==
    /\ \A i \in 1..Len(uploadedFiles) : uploadedFiles[i].name \notin RejectedNames
    /\ \A i \in 1..Len(uploadedFiles) :
          uploadedFiles[i].name \in RejectedNames =>
              /\ \A d \in 1..Len(sequenceDiagrams) : sequenceDiagrams[d].id # uploadedFiles[i].id
              /\ \A c \in 1..Len(allClasses) : allClasses[c].id[1] # uploadedFiles[i].id
    /\ \A i \in 1..Len(systemFunctions) : systemFunctions[i].id # <<"F","R","9">>

\* C11: addFile of a file whose parsing fails with a format error leaves the
\* parsed functions, the diagram collection and the class catalog as they
\* were, whichever of the three tabs the file was dropped on.
C11_RejectedFileChangesNothing ==
    [][ \A call \in pending :
            (call.file.fault # "none" /\ AddFileFinish(call))
                => /\ systemFunctions' = systemFunctions
                   /\ sequenceDiagrams' = sequenceDiagrams
                   /\ allClasses' = allClasses ]_vars

C13_SessionsOnlyAppended ==
    [][ ~ResetAll =>
            /\ Len(codeSessions') \in { Len(codeSessions), Len(codeSessions) + 1 }
            /\ SubSeq(codeSessions', 1, Len(codeSessions)) = codeSessions
            /\ GenerateCode => Len(codeSessions') = Len(codeSessions) + 1 ]_vars

\* C13 witness: two sessions for different selections, the second one
\* recorded after an uploaded file had been removed.
C13_Witness ==
    /\ Len(codeSessions) = 2
    /\ codeSessions[1].selectedClasses # codeSessions[2].selectedClasses
    /\ serial = 3
    /\ pending = {}
    /\ Len(uploadedFiles) = 2
    /\ lastRun.ran
    /\ Len(lastRun.diagrams) = 1

\* C14: removeFile for an uploaded sequence-diagram file takes the diagram
\* parsed from that file out of the diagram collection and leaves the
\* diagrams parsed from other files in it.
C14_RemoveFileRemovesDiagram ==
    [][ \A i \in 1..Len(uploadedFiles) :
            (uploadedFiles[i].type = "sequenceDiagram" /\ RemoveFile(uploadedFiles[i].id))
                => /\ \A d \in Range(sequenceDiagrams') : d.id # uploadedFiles[i].id
                   /\ \A d \in Range(sequenceDiagrams) :
                         d.id # uploadedFiles[i].id => d \in Range(sequenceDiagrams') ]_vars

(***************************************************************************)
(* Properties of the parsers                                               *)
(***************************************************************************)
\* the accepted data rows of the matrix just parsed
AcceptedRows ==
    { i \in 1..Len(parse.input.rows) : RowAccepted(parse.input, parse.input.rows[i]) }

\* C15: for a CSV whose header resolves an id or a name column,
\* processRTMFile returns no two functions with the same id, one function
\* for each id among the accepted rows, and as the diagram names of each
\* function the duplicate-free union of the names of all rows with its id.
C15_OneFunctionPerId ==
    ( /\ parse.pc = "done"
      /\ parse.kind = "rtm"
      /\ (parse.input.fnIdIndex # -1 \/ parse.input.fnNameIndex # -1) )
    => LET csv == parse.input
           out == parse.out
           idOf(i) == RowIdAndName(csv, csv.rows[i])[1]
           namesOf(i) == Range(cleanAndSplitDiagramNames(Field(csv.rows[i], csv.seqDiagramIndex)))
                            \cup Range(cleanAndSplitDiagramNames(
                                          Field(csv.rows[i], csv.relatedSeqDiagramIndex)))
       IN /\ \A i, j \in 1..Len(out) : i # j => out[i].id # out[j].id
          /\ { out[k].id : k \in 1..Len(out) } = { idOf(i) : i \in AcceptedRows }
          /\ \A k \in 1..Len(out) :
                /\ Range(out[k].sequenceDiagramNames)
                      = UNION { namesOf(i) : i \in { r \in AcceptedRows : idOf(r) = out[k].id } }
                /\ \A a, b \in 1..Len(out[k].sequenceDiagramNames) :
                      a # b => out[k].sequenceDiagramNames[a] # out[k].sequenceDiagramNames[b]

\* C15 witness: FR1 in two rows that share diagram A, FR2 in a third row
\* with A twice; two functions are returned, FR1 with A and B once each.
C15_Witness ==
    /\ parse.pc = "done"
    /\ parse.kind = "rtm"
    /\ parse.input = Csv(0, 1, 2, 3, << << <<"F","R","1">>, <<"D","e","p","o","s","i","t">>, <<"A">>, <<"B">> >>,
                                        << <<"F","R","2">>, <<>>, <<"'","A","'",","," ","A">>, <<"A">> >>,
                                        << <<"F","R","1">>, <<"D","e","p","o","s","i","t">>, <<"B",";"," ","A">>, <<>> >> >>)
    /\ parse.out = << [id |-> <<"F","R","1">>, name |-> <<"D","e","p","o","s","i","t">>,
                       sequenceDiagramNames |-> << <<"A">>, <<"B">> >>],
                      [id |-> <<"F","R","2">>, name |-> <<"F","R","2">>,
                       sequenceDiagramNames |-> << <<"A">> >>] >>

\* C16: the class catalog processClassDiagramFile returns never holds two
\* entries with the same package name and class name, whatever the class
\* elements of the document.
C16_UniqueClassIdentity ==
    (parse.pc = "done" /\ parse.kind = "classes")
    => \A i, j \in 1..Len(parse.out) :
          i # j => << parse.out[i].packageName, parse.out[i].name >>
                      # << parse.out[j].packageName, parse.out[j].name >>

\* C16 witness: a document with an element twice and the same class name
\* with and without a package; the catalog has one entry for the name.
C16_Witness ==
    /\ parse.pc = "done"
    /\ parse.kind = "classes"
    /\ Len(parse.input) = 3
    /\ parse.input[1] = parse.input[3]
    /\ parse.input[1].name = parse.input[2].name
    /\ parse.input[1].packageName = <<>>
    /\ parse.input[2].packageName # <<>>
    /\ Len(parse.input[1].methods) > 0
    /\ Len(parse.out) = 1

\* the method signatures of a list of methods
Signatures(methods) == { MethodKey(methods[i]) : i \in 1..Len(methods) }

\* C19: when two class elements collide in the deduplication (same key in
\* the first pass, same name in the second), the surviving catalog entry
\* holds every method signature of either version, whichever came first.
C19_CollisionKeepsAllSignatures ==
    (parse.pc = "done" /\ parse.kind = "classes")
    => \A a, b \in 1..Len(parse.input) :
          ( /\ a # b
            /\ ~SkippedName(parse.input[a].name)
            /\ parse.input[a].name = parse.input[b].name
            /\ \E k \in 1..Len(parse.out) : parse.out[k].name = parse.input[a].name )
          => \A k \in 1..Len(parse.out) :
                parse.out[k].name = parse.input[a].name
                   => Signatures(parse.input[a].methods) \cup Signatures(parse.input[b].methods)
                         \subseteq Signatures(parse.out[k].methods)

\* the model ids of the shapes that become participants
ParticipantModels(shapes) ==
    { shapes[i].id : i \in { k \in 1..Len(shapes) :
                               shapes[k].id # "" /\ shapes[k].type # NoClassifier } }

\* C20: in a diagram returned by processSequenceDiagramFile the two ends of
\* every message are ids of participants of that diagram; a message element
\* with an end that is no recorded participant is dropped, and the elements
\* after it are still parsed.
C20_MessageEndsAreParticipants ==
    (parse.pc = "done" /\ parse.kind = "sequence" /\ parse.out # Null)
    => LET ids == { parse.out.objects[i].id : i \in 1..Len(parse.out.objects) }
           models == ParticipantModels(parse.input.objects)
           kept(element) == element.from \in models /\ element.to \in models
           elements == SelectSeq(parse.input.messages, kept)
       IN /\ \A j \in 1..Len(parse.out.messages) :
                parse.out.messages[j].from \in ids /\ parse.out.messages[j].to \in ids
          /\ Len(parse.out.messages) = Len(elements)
          /\ \A j \in 1..Len(elements) : parse.out.messages[j].id = elements[j].id

\* C20 witness: the first message element ends at a lifeline that is no
\* participant, the second joins two participants; only the second is in
\* the diagram.
C20_Witness ==
    /\ parse.pc = "done"
    /\ parse.kind = "sequence"
    /\ parse.out # Null
    /\ Len(parse.out.objects) = 2
    /\ Len(parse.input.messages) = 2
    /\ parse.input.messages[1].from = "a"
    /\ parse.input.messages[1].to = "b"
    /\ parse.input.messages[2].from = "c"
    /\ parse.input.messages[2].to = "a"
    /\ Len(parse.out.messages) = 1
    /\ parse.out.messages[1].id = << "m", "c", "a" >>
    /\ parse.out.messages[1].from = parse.out.objects[2].id
    /\ parse.out.messages[1].to = parse.out.objects[1].id

(***************************************************************************)
(* Properties of the reference lookup                                      *)
(***************************************************************************)
\* C17: the reference lookup against the loaded diagrams returns a diagram
\* with exactly the name when there is one, else one whose name equals it
\* in lower case when there is one, else one matching by containment when
\* there is one, and one matching only after normalization last, whatever
\* the order of the diagrams.
C17_LookupPriority ==
    (parse.pc = "done" /\ parse.kind = "resolve")
    => LET label == parse.input.diagramName
           loaded == Range(parse.input.diagrams)
           exact == { d \in loaded : d.name = label }
           folded == { d \in loaded : toLowerCase(d.name) = toLowerCase(label) }
           contained == { d \in loaded :
                            \/ includes(toLowerCase(d.name), toLowerCase(label))
                            \/ includes(toLowerCase(label), toLowerCase(d.name)) }
           normalized == { d \in loaded :
                             \/ includes(StripSeparators(toLowerCase(d.name)),
                                         StripSeparators(toLowerCase(label)))
                             \/ includes(StripSeparators(toLowerCase(label)),
                                         StripSeparators(toLowerCase(d.name))) }
       IN IF exact # {} THEN parse.out \in exact
          ELSE IF folded # {} THEN parse.out \in folded
          ELSE IF contained # {} THEN parse.out \in contained
          ELSE parse.out = Null \/ parse.out \in normalized

\* C18: with a reference labelled ProcessDeposit, no diagram of that name
\* and the diagram Process Deposit Flow loaded, the lookup of a generateCode
\* run resolves the reference to Process Deposit Flow, and the run adds no
\* edge for an unresolved reference: every addition is the edge of a
\* message of a loaded diagram.
C18_ResolvesProcessDeposit ==
    ( /\ lastRun.ran
      /\ \E d \in Range(lastRun.diagrams) : d.name = <<"P","r","o","c","e","s","s"," ","D","e","p","o","s","i","t"," ","F","l","o","w">>
      /\ \A d \in Range(lastRun.diagrams) : d.name # <<"P","r","o","c","e","s","s","D","e","p","o","s","i","t">>
      /\ \E d \in Range(lastRun.diagrams) :
            \E r \in Range(d.references) : r.diagramName = <<"P","r","o","c","e","s","s","D","e","p","o","s","i","t">> )
    => /\ ResolveReference(lastRun.diagrams, <<"P","r","o","c","e","s","s","D","e","p","o","s","i","t">>) # Null
       /\ ResolveReference(lastRun.diagrams, <<"P","r","o","c","e","s","s","D","e","p","o","s","i","t">>).name = <<"P","r","o","c","e","s","s"," ","D","e","p","o","s","i","t"," ","F","l","o","w">>
       /\ \A i \in 1..Len(lastRun.adds) :
             \E d \in Range(lastRun.diagrams) : lastRun.adds[i] \in Range(MessageEdges(d))

(***************************************************************************)
(* Properties of the fallback for unresolved references                    *)
(***************************************************************************)
\* the references of a diagram of the latest run that resolve to no diagram
Unresolved(diagram) ==
    { r \in Range(diagram.references) :
        r.diagramName # NoName /\ ResolveReference(lastRun.diagrams, r.diagramName) = Null }

\* the REF participants of a diagram that carry the name of a reference
OwnBoxes(diagram, r) ==
    { obj \in Range(diagram.objects) : obj.type = REF /\ obj.name = r.name }

\* the classes that send a message to a REF participant of the reference
SendersTo(diagram, r) ==
    { ObjectById(diagram, m.from).type :
        m \in { x \in Range(diagram.messages) :
                  /\ ObjectById(diagram, x.from) # Null
                  /\ ~IsActorOrRef(ObjectById(diagram, x.from).type)
                  /\ \E box \in OwnBoxes(diagram, r) : x.to = box.id } }

\* the classes the spec lets call the synthetic class of a reference
CallersThrough(diagram, r) ==
    IF OwnBoxes(diagram, r) # {} THEN SendersTo(diagram, r) ELSE UnderTest

\* C21: for every reference of a run that resolves to no diagram, the call
\* graph has an edge to its synthetic service class from each class that
\* sends a message to the reference's own REF participant (from each class
\* under test when it has none), and every edge into a synthetic service
\* class comes from such a class: callers of another REF box get none.
C21_CallersOfOwnBox ==
    lastRun.ran =>
        \A d \in Range(lastRun.diagrams) :
            /\ \A r \in Unresolved(d) :
                  \A c \in CallersThrough(d, r) :
                      << c, mapOperationToClassName(r.diagramName) >> \in RunEdges
            /\ \A e \in RunEdges :
                  (\E r \in Unresolved(d) : e[2] = mapOperationToClassName(r.diagramName))
                  => \/ \E r \in Unresolved(d) :
                           /\ e[2] = mapOperationToClassName(r.diagramName)
                           /\ e[1] \in CallersThrough(d, r)
                     \/ \E x \in Range(lastRun.diagrams) :
                           \E m \in Range(x.messages) :
                               /\ ObjectById(x, m.from) # Null
                               /\ ObjectById(x, m.to) # Null
                               /\ ObjectById(x, m.to).type = e[2]
                               /\ ObjectById(x, m.from).type \in { e[1], REF }

(***************************************************************************)
(* Properties of resetAll and of overlapping uploads                       *)
(***************************************************************************)
\* every piece of application state has its initial value
Cleared ==
    /\ uploadedFiles = <<>>
    /\ systemFunctions = <<>>
    /\ sequenceDiagrams = <<>>
    /\ allClasses = <<>>
    /\ filteredClasses = <<>>
    /\ selectedClassIds = <<>>
    /\ generatedCodes = <<>>
    /\ codeSessions = <<>>
    /\ selectedFunctionId = NoFunction
    /\ currentStep = 1
    /\ ~isLoading
    /\ ~isGenerating

\* C22: after resetAll the uploaded files, the functions, the diagrams, the
\* class catalog, the filtered classes, the class selection, the artifact
\* log and the session list are empty, no function is selected, the current
\* step is 1 and isLoading and isGenerating are false, whatever the state
\* before.
C22_ResetReplacesAllState == [][ ResetAll => Cleared' ]_vars

\* C22 witness: everything is cleared although all uploads have been
\* started and one of them is still reading its file, which only a reset
\* leaves behind.
C22_Witness ==
    /\ Cleared
    /\ serial = MaxUploads
    /\ pending # {}

(***************************************************************************)
(* Properties of the REF occurrences of a document                         *)
(***************************************************************************)
\* C23: whatever the Name attributes of the REF occurrences of a
\* well-formed document are, a prefix token alone included,
\* processSequenceDiagramFile returns the diagram, with one reference entry
\* for each occurrence, in order.
C23_EveryLabelGivesReference ==
    (parse.pc = "done" /\ parse.kind = "sequence" /\ parse.input.fault = "none")
    => /\ parse.out # Null
       /\ Len(parse.out.references) = Len(parse.input.references)
       /\ \A k \in 1..Len(parse.input.references) :
             parse.out.references[k].id = parse.input.references[k].id

(***************************************************************************)
(* Properties of the call graph as a whole                                 *)
(***************************************************************************)
\* the edges a diagram of the latest run gives on its own: its message
\* edges and the edges of its references that resolve to no diagram
OwnEdges(diagram) ==
    GraphEdges(MessageEdges(diagram))
        \cup UNION { GraphEdges(UnresolvedEdges(diagram, r, lastRun.selectedClasses)) :
                        r \in Unresolved(diagram) }

\* C24: the call graph of a run is the union, over the loaded diagrams each
\* taken on its own, of the diagram's message edges and the edges of its
\* unresolved references: following a resolved reference adds no edge
\* beyond that union, whatever the upload order and whichever diagram the
\* reference resolves to.
C24_GraphIsUnionOfDiagrams ==
    lastRun.ran => RunEdges = UNION { OwnEdges(d) : d \in Range(lastRun.diagrams) }

\* C24 witness: a run on two diagrams in which the label AuditBilling, which
\* matches both, was followed from the second diagram into the first, and
\* in which a reference resolved to no diagram, with a class under test.
C24_Witness ==
    /\ lastRun.ran
    /\ Len(lastRun.diagrams) = 2
    /\ UnderTest # {}
    /\ RunEdges # {}
    /\ \E r \in Range(lastRun.diagrams[2].references) :
          /\ r.diagramName = <<"A","u","d","i","t","B","i","l","l","i","n","g">>
          /\ ResolveReference(lastRun.diagrams, r.diagramName) = lastRun.diagrams[1]
    /\ \E d \in Range(lastRun.diagrams) : Unresolved(d) # {}
    /\ MessageEdges(lastRun.diagrams[1]) # <<>>

(***************************************************************************)
(* Properties of the artifacts of a run                                    *)
(***************************************************************************)
\* the drivers of the latest run
RunDrivers == { c \in RunCodes : endsWith(c.fileName, <<"D","r","i","v","e","r",".","j","a","v","a">>) }

\* C25: the target class given to the template of every driver of a run is
\* a class under test that the driver's class calls in the call graph, and
\* never the placeholder UnknownTarget.
C25_DriverTargetIsCalledClassUnderTest ==
    lastRun.ran =>
        \A c \in RunDrivers :
            /\ c.target # <<"U","n","k","n","o","w","n","T","a","r","g","e","t">>
            /\ c.target \in UnderTest
            /\ << c.relatedClass, c.target >> \in RunEdges

\* C25 witness: two classes are under test and a driver targets the one
\* that is not first in the catalog, the only one its class calls.
C25_Witness ==
    /\ lastRun.ran
    /\ Len(lastRun.selectedClasses) = 2
    /\ \E c \in RunDrivers :
          /\ c.target = lastRun.selectedClasses[2].name
          /\ << c.relatedClass, lastRun.selectedClasses[1].name >> \notin RunEdges

C28_LogIsConcatenationOfSessions ==
    generatedCodes = Flatten([i \in 1..Len(codeSessions) |-> codeSessions[i].codes])

\* C28 witness: two sessions with different batches, then a run that
\* threw; the log has the artifacts of the two sessions.
C28_Witness ==
    /\ Len(codeSessions) = 2
    /\ codeSessions[1].codes # codeSessions[2].codes
    /\ codeSessions[1].codes[1].type = "stub"
    /\ Len(generatedCodes) = Len(codeSessions[1].codes) + Len(codeSessions[2].codes)
    /\ lastRun.threw

NothingLoaded ==
    /\ uploadedFiles = <<>>
    /\ systemFunctions = <<>>
    /\ sequenceDiagrams = <<>>
    /\ allClasses = <<>>

====
